---- MODULE Spec2Model ----
(***************************************************************************)
(* Access-control and abuse-prevention core of openBank:                   *)
(*   src/core/rbac.rs        roles, permissions, UserRoles, RbacService    *)
(*   src/core/rate_limit.rs  RateLimiter and its mutex                     *)
(*   src/core/middleware.rs  the middleware layers set up in src/main.rs   *)
(*   src/core/security.rs    AccountSecurity, AccountSecurityService       *)
(*   src/core/config.rs      Config::from_env                              *)
(*   src/main.rs             startup: configuration, services, serving     *)
(* Strings stand for Rust Strings and Uuids, "None" for Option::None.      *)
(* A BTreeMap<String, String> of conditions is the set of its <<key,       *)
(* value>> pairs (at most one pair per key); Option::None conditions and   *)
(* an empty map are both the empty set, which `matches` cannot tell apart. *)
(***************************************************************************)
EXTENDS Integers, Sequences, FiniteSets, TLC

VARIABLES
    m_call,       \* one call of Permission::matches: its arguments and result
    ur,           \* a UserRoles value driven through its own methods
    ur_ret,       \* what the last method called on `ur` returned
    user_roles,   \* RbacService.user_roles: HashMap<Uuid, UserRoles>
    ret,          \* what the last RbacService call returned
    now,          \* Instant::now(), in seconds
    config,       \* RateLimiter.config
    states,       \* RateLimiter.states: HashMap<String, RateLimitState>
    rl_ret,       \* what the RateLimiter call made at this instant returned
    request,      \* the HTTP request in flight and where it is in the layers
    audit_log,    \* the events handed to AuditLogger::log for that request
    response,     \* the response that left security_middleware for it
    lock,         \* RateLimiter.states' Mutex: the thread holding it, or None
    threads,      \* the threads inside RateLimiter methods, step by step
    security,     \* one AccountSecurity record
    sec_config,   \* AccountSecurityService.config
    sec_ret,      \* what the last AccountSecurityService call returned
    last_lockout, \* the duration of the latest AccountLocked result, if any
    failed_ips,   \* the addresses record_failed_attempt was called with so far
    pw_changes,   \* the hashes given to record_password_change, newest first
    utc,          \* Utc::now(), in minutes
    env,          \* the process environment Config::from_env reads
    app,          \* how far main has come, and the Config it loaded
    ok_times      \* per key, the instants of the calls that returned Ok

ingress_vars == <<request, audit_log, response>>
lock_vars == <<lock, threads>>
security_vars == <<security, sec_config, sec_ret, last_lockout, failed_ips,
                   pw_changes, utc>>

startup_vars == <<env, app>>

vars == <<m_call, ur, ur_ret, user_roles, ret, now, config, states, rl_ret,
          request, audit_log, response, lock, threads,
          security, sec_config, sec_ret, last_lockout, failed_ips,
          pw_changes, utc, env, app, ok_times>>

None == "None"

-----------------------------------------------------------------------------
(* Bounds of the model *)

\* most custom grants put on one UserRoles value
MaxCustom == 2
\* most denials put on one UserRoles value
MaxDenied == 2
\* the clock stops here
MaxTime == 320
\* failed logins in a row that are followed
MaxFailedAttempts == 7
\* successful logins that are followed
MaxLogins == 2
\* the clock of the burst runs stops here
MaxBurstTime == 30
\* the last minute of the clock of the account service
MaxUtc == 30
\* password changes of one account that are followed
MaxChanges == 4

-----------------------------------------------------------------------------
(* rbac.rs: Role *)

Role == {"SuperAdmin", "Admin", "Developer", "ReadOnly", "Support", "Auditor"}

Permission_new(resource, action) ==
    [resource |-> resource, action |-> action, conditions |-> {}]

with_condition(self, key, value) ==
    [self EXCEPT !.conditions = {c \in @ : c[1] # key} \cup {<<key, value>>}]

\* C2 mutant: Admin's list leaves out ReadOnly, which Developer inherits
get_inherited_roles_short(self) ==
    CASE self = "SuperAdmin" -> {"Admin", "Developer", "ReadOnly", "Support", "Auditor"}
      [] self = "Admin"      -> {"Developer", "Support"}
      [] self = "Developer"  -> {"ReadOnly"}
      [] self = "Support"    -> {"ReadOnly"}
      [] self = "Auditor"    -> {"ReadOnly"}
      [] self = "ReadOnly"   -> {}

get_inherited_roles(self) ==
    CASE self = "SuperAdmin" -> {"Admin", "Developer", "ReadOnly", "Support", "Auditor"}
      [] self = "Admin"      -> {"Developer", "ReadOnly", "Support"}
      [] self = "Developer"  -> {"ReadOnly"}
      [] self = "Support"    -> {"ReadOnly"}
      [] self = "Auditor"    -> {"ReadOnly"}
      [] self = "ReadOnly"   -> {}

get_direct_permissions(self) ==
    CASE self = "SuperAdmin" ->
            { Permission_new("system", "manage"),
              Permission_new("users", "delete"),
              Permission_new("developers", "suspend"),
              Permission_new("audit", "configure") }
      [] self = "Admin" ->
            { Permission_new("developers", "create"),
              Permission_new("developers", "update"),
              Permission_new("developers", "read"),
              Permission_new("projects", "manage"),
              Permission_new("audit", "read"),
              Permission_new("system", "monitor") }
      [] self = "Developer" ->
            { Permission_new("projects", "create"),
              Permission_new("projects", "update_own"),
              Permission_new("projects", "delete_own"),
              Permission_new("tokens", "generate"),
              Permission_new("tokens", "refresh"),
              Permission_new("api", "access"),
              Permission_new("profile", "update_own") }
      [] self = "Support" ->
            { Permission_new("developers", "read"),
              Permission_new("projects", "read"),
              Permission_new("tokens", "read"),
              Permission_new("support", "assist") }
      [] self = "Auditor" ->
            { Permission_new("audit", "read"),
              Permission_new("compliance", "report"),
              Permission_new("logs", "read"),
              Permission_new("security", "monitor") }
      [] self = "ReadOnly" ->
            { Permission_new("profile", "read_own"),
              Permission_new("projects", "read_own"),
              Permission_new("documentation", "read") }

\* direct permissions, then the direct permissions of the roles listed by
\* get_inherited_roles (one level, no recursion)
get_permissions(self) ==
    get_direct_permissions(self)
        \cup UNION {get_direct_permissions(r) : r \in get_inherited_roles(self)}

-----------------------------------------------------------------------------
(* rbac.rs: Permission::matches and PermissionContext *)

PermissionContext_new(user_id) ==
    [user_id |-> user_id, resource_owner_id |-> None,
     project_owner_id |-> None, environment |-> None]

\* C3 mutant: an unknown condition key is skipped instead of failing the match
condition_passes_open(key, value, context) ==
    CASE key = "owner" ->
            ~(value = "self" /\ context.resource_owner_id # context.user_id)
      [] key = "project_owner" ->
            ~(value = "self" /\ context.project_owner_id # context.user_id)
      [] key = "environment" ->
            context.environment = value
      [] OTHER -> TRUE

\* one arm of the `match key.as_str()` of Permission::matches: TRUE when the
\* loop goes on to the next condition, FALSE when it returns false
condition_passes(key, value, context) ==
    CASE key = "owner" ->
            ~(value = "self" /\ context.resource_owner_id # context.user_id)
      [] key = "project_owner" ->
            ~(value = "self" /\ context.project_owner_id # context.user_id)
      [] key = "environment" ->
            context.environment = value
      [] OTHER -> FALSE

matches(self, required, context) ==
    IF self.resource # required.resource \/ self.action # required.action
    THEN FALSE
    ELSE \A c \in required.conditions : condition_passes(c[1], c[2], context)

-----------------------------------------------------------------------------
(* rbac.rs: UserRoles *)

UserRoles_new(user_id, role) ==
    [user_id |-> user_id, roles |-> {role},
     custom_permissions |-> {}, denied_permissions |-> {}]

add_role(self, role) == [self EXCEPT !.roles = @ \cup {role}]

remove_role(self, role) == [self EXCEPT !.roles = @ \ {role}]

add_permission(self, permission) ==
    [self EXCEPT !.custom_permissions = @ \cup {permission}]

deny_permission(self, permission) ==
    [self EXCEPT !.denied_permissions = @ \cup {permission}]

\* C1 mutant: the custom grants are looked at before the denials
has_permission_grant_first(self, required, context) ==
    IF \E permission \in self.custom_permissions :
                matches(permission, required, context)
    THEN TRUE
    ELSE IF \E denied \in self.denied_permissions : matches(denied, required, context)
    THEN FALSE
    ELSE \E role \in self.roles : \E permission \in get_permissions(role) :
                matches(permission, required, context)

has_permission(self, required, context) ==
    IF \E denied \in self.denied_permissions : matches(denied, required, context)
    THEN FALSE
    ELSE IF \E permission \in self.custom_permissions :
                matches(permission, required, context)
    THEN TRUE
    ELSE \E role \in self.roles : \E permission \in get_permissions(role) :
                matches(permission, required, context)

\* the retain loop keeps p only if no denied entry makes p.matches(denied, ctx)
\* true, ctx being a fresh context of the record's own user
get_effective_permissions(self) ==
    LET ctx == PermissionContext_new(self.user_id)
        all == UNION {get_permissions(role) : role \in self.roles}
                   \cup self.custom_permissions
    IN  {p \in all : \A denied \in self.denied_permissions : ~matches(p, denied, ctx)}

-----------------------------------------------------------------------------
(* Inputs of the RBAC operations *)

Users == {"u1", "u2"}

\* the principals that are ever given a role; u2 never registers
Registered == {"u1"}

\* contexts built by PermissionContext::new(u1, ..) and its with_* methods:
\* nothing set; everything agreeing with the actor; then each of the owner,
\* the project owner and the environment differing in turn
Context(resource_owner_id, project_owner_id, environment) ==
    [user_id |-> "u1", resource_owner_id |-> resource_owner_id,
     project_owner_id |-> project_owner_id, environment |-> environment]

Contexts ==
    { PermissionContext_new("u1"),
      Context("u1", "u1", "production"),
      Context("u2", "u1", "production"),
      Context("u1", "u2", "production"),
      Context("u1", "u1", "sandbox"),
      Context("u1", None, None) }

\* permissions held, for a call of Permission::matches on its own
HeldPerms ==
    get_permissions("SuperAdmin") \cup
    { Permission_new("developers", "manage"),
      with_condition(Permission_new("projects", "create"), "owner", "self"),
      with_condition(Permission_new("projects", "update_own"), "region", "eu"),
      with_condition(Permission_new("documentation", "read"), "environment", "sandbox") }

\* permissions put on a record by add_permission / deny_permission
PermPool ==
    { Permission_new("projects", "create"),
      Permission_new("developers", "manage"),
      with_condition(Permission_new("projects", "create"), "owner", "self") }

\* permissions asked for
ReqPerms ==
    { Permission_new("projects", "create"),
      with_condition(Permission_new("projects", "create"), "owner", "self"),
      Permission_new("projects", "update_own"),
      with_condition(Permission_new("projects", "update_own"), "owner", "self"),
      with_condition(Permission_new("projects", "update_own"), "owner", "team"),
      with_condition(with_condition(Permission_new("projects", "update_own"),
                                    "owner", "self"), "environment", "production"),
      Permission_new("documentation", "read"),
      with_condition(Permission_new("documentation", "read"), "environment", "production"),
      with_condition(Permission_new("documentation", "read"), "region", "eu"),
      with_condition(Permission_new("system", "manage"), "project_owner", "self"),
      Permission_new("developers", "manage") }

NoCall == [op |-> "none"]

Absent == [absent |-> TRUE]

-----------------------------------------------------------------------------
(* rbac.rs: RbacService, on the map user_roles *)

\* C5 mutant: a new record holds the assigned role only, no default role
assign_role_no_default(map, user_id, role) ==
    LET entry == IF map[user_id] = Absent
                 THEN UserRoles_new(user_id, role)
                 ELSE map[user_id]
    IN  [map EXCEPT ![user_id] = add_role(entry, role)]

\* the map after assign_role(user_id, role): entry().or_insert_with(..) then add_role
assign_role(map, user_id, role) ==
    LET entry == IF map[user_id] = Absent
                 THEN UserRoles_new(user_id, "ReadOnly")
                 ELSE map[user_id]
    IN  [map EXCEPT ![user_id] = add_role(entry, role)]

\* C30 mutant: a record whose last role is removed is deleted
RbacService_remove_role_drops_empty(map, user_id, role) ==
    IF map[user_id] = Absent
    THEN map
    ELSE IF remove_role(map[user_id], role).roles = {}
    THEN [map EXCEPT ![user_id] = Absent]
    ELSE [map EXCEPT ![user_id] = remove_role(map[user_id], role)]

\* the map after remove_role(user_id, role): get_mut, nothing when absent
RbacService_remove_role(map, user_id, role) ==
    IF map[user_id] = Absent
    THEN map
    ELSE [map EXCEPT ![user_id] = remove_role(map[user_id], role)]

\* C4 mutant: a principal without a record is denied everything
check_permission_deny_unknown(map, user_id, permission, context) ==
    IF map[user_id] # Absent
    THEN has_permission(map[user_id], permission, context)
    ELSE FALSE

check_permission(map, user_id, permission, context) ==
    IF map[user_id] # Absent
    THEN has_permission(map[user_id], permission, context)
    ELSE has_permission(UserRoles_new(user_id, "ReadOnly"), permission, context)

\* AppError::Authorization(format!("User {} does not have permission for {}:{}", ..))
AuthorizationError(user_id, permission) ==
    [err |-> "Authorization", user_id |-> user_id,
     resource |-> permission.resource, action |-> permission.action]

Ok == [ok |-> TRUE]

\* C7 mutant: the error names the permission's action only
authorize_short_error(map, user_id, permission, context) ==
    IF check_permission(map, user_id, permission, context)
    THEN Ok
    ELSE [err |-> "Authorization", user_id |-> user_id,
          resource |-> permission.action, action |-> permission.action]

authorize(map, user_id, permission, context) ==
    IF check_permission(map, user_id, permission, context)
    THEN Ok
    ELSE AuthorizationError(user_id, permission)

-----------------------------------------------------------------------------
(* rate_limit.rs: RateLimiter.  Instants and Durations are whole seconds;   *)
(* Option<Instant> is <<>> for None and <<t>> for Some(t).                  *)

\* Duration::from_secs(300), the block_duration of check_rate_limit
BlockDuration == 300
\* Duration::from_secs(10), the burst interval of check_rate_limit
BurstInterval == 10

Keys == {"ip1"}

NewRateLimitState == [requests |-> <<>>, blocked_until |-> <<>>]

\* Instant::duration_since: zero when `earlier` is later than self
duration_since(self, earlier) == IF self >= earlier THEN self - earlier ELSE 0

\* C10 mutant: nothing is dropped from the stored requests
retain_window_keep_all(requests, t, cfg) == requests

\* C13 mutant: a timestamp exactly window_size old is kept
retain_window_inclusive(requests, t, cfg) ==
    SelectSeq(requests, LAMBDA request_time :
                  duration_since(t, request_time) <= cfg.window_size)

\* requests.retain(|t| now.duration_since(t) < window_size)
retain_window(requests, t, cfg) ==
    SelectSeq(requests, LAMBDA request_time :
                  duration_since(t, request_time) < cfg.window_size)

\* C28 mutant: the burst is counted over the last 5 seconds only
recent_requests_five_seconds(requests, t) ==
    Len(SelectSeq(requests, LAMBDA request_time :
                      duration_since(t, request_time) < 5))

\* requests.iter().filter(|t| now.duration_since(t) < 10 s).count()
recent_requests(requests, t) ==
    Len(SelectSeq(requests, LAMBDA request_time :
                      duration_since(t, request_time) < BurstInterval))

\* C8 mutant: a call made during a block starts the block again
check_rate_limit_reblock(map, cfg, ip, t) ==
    LET state   == IF map[ip] = Absent THEN NewRateLimitState ELSE map[ip]
        blocked == state.blocked_until # <<>> /\ t < state.blocked_until[1]
        cleared == [state EXCEPT !.blocked_until = <<>>]
        pruned  == [cleared EXCEPT !.requests = retain_window(@, t, cfg)]
        recent  == recent_requests(pruned.requests, t)
    IN  IF blocked
        THEN [states |-> [map EXCEPT ![ip] =
                             [state EXCEPT !.blocked_until = <<t + BlockDuration>>]],
              result |-> [err |-> "Blocked",
                          retry_after |-> duration_since(state.blocked_until[1], t)]]
        ELSE IF Len(pruned.requests) >= cfg.requests_per_minute
        THEN [states |-> [map EXCEPT ![ip] =
                             [pruned EXCEPT !.blocked_until = <<t + BlockDuration>>]],
              result |-> [err |-> "ExceededLimit",
                          requests_made |-> Len(pruned.requests),
                          limit |-> cfg.requests_per_minute,
                          retry_after |-> BlockDuration]]
        ELSE IF recent >= cfg.burst_size
        THEN [states |-> [map EXCEPT ![ip] = pruned],
              result |-> [err |-> "BurstExceeded",
                          burst_count |-> recent,
                          burst_limit |-> cfg.burst_size]]
        ELSE [states |-> [map EXCEPT ![ip] =
                             [pruned EXCEPT !.requests = Append(@, t)]],
              result |-> Ok]

\* C9 mutant: the block lasts for the configured window
check_rate_limit_block_window(map, cfg, ip, t) ==
    LET state   == IF map[ip] = Absent THEN NewRateLimitState ELSE map[ip]
        blocked == state.blocked_until # <<>> /\ t < state.blocked_until[1]
        cleared == [state EXCEPT !.blocked_until = <<>>]
        pruned  == [cleared EXCEPT !.requests = retain_window(@, t, cfg)]
        recent  == recent_requests(pruned.requests, t)
    IN  IF blocked
        THEN [states |-> [map EXCEPT ![ip] = state],
              result |-> [err |-> "Blocked",
                          retry_after |-> duration_since(state.blocked_until[1], t)]]
        ELSE IF Len(pruned.requests) >= cfg.requests_per_minute
        THEN [states |-> [map EXCEPT ![ip] =
                             [pruned EXCEPT !.blocked_until = <<t + cfg.window_size>>]],
              result |-> [err |-> "ExceededLimit",
                          requests_made |-> Len(pruned.requests),
                          limit |-> cfg.requests_per_minute,
                          retry_after |-> cfg.window_size]]
        ELSE IF recent >= cfg.burst_size
        THEN [states |-> [map EXCEPT ![ip] = pruned],
              result |-> [err |-> "BurstExceeded",
                          burst_count |-> recent,
                          burst_limit |-> cfg.burst_size]]
        ELSE [states |-> [map EXCEPT ![ip] =
                             [pruned EXCEPT !.requests = Append(@, t)]],
              result |-> Ok]

\* C11 mutant: a call refused for a burst is recorded all the same
check_rate_limit_burst_records(map, cfg, ip, t) ==
    LET state   == IF map[ip] = Absent THEN NewRateLimitState ELSE map[ip]
        blocked == state.blocked_until # <<>> /\ t < state.blocked_until[1]
        cleared == [state EXCEPT !.blocked_until = <<>>]
        pruned  == [cleared EXCEPT !.requests = retain_window(@, t, cfg)]
        recent  == recent_requests(pruned.requests, t)
    IN  IF blocked
        THEN [states |-> [map EXCEPT ![ip] = state],
              result |-> [err |-> "Blocked",
                          retry_after |-> duration_since(state.blocked_until[1], t)]]
        ELSE IF Len(pruned.requests) >= cfg.requests_per_minute
        THEN [states |-> [map EXCEPT ![ip] =
                             [pruned EXCEPT !.blocked_until = <<t + BlockDuration>>]],
              result |-> [err |-> "ExceededLimit",
                          requests_made |-> Len(pruned.requests),
                          limit |-> cfg.requests_per_minute,
                          retry_after |-> BlockDuration]]
        ELSE IF recent >= cfg.burst_size
        THEN [states |-> [map EXCEPT ![ip] =
                             [pruned EXCEPT !.requests = Append(@, t)]],
              result |-> [err |-> "BurstExceeded",
                          burst_count |-> recent,
                          burst_limit |-> cfg.burst_size]]
        ELSE [states |-> [map EXCEPT ![ip] =
                             [pruned EXCEPT !.requests = Append(@, t)]],
              result |-> Ok]

\* C27 mutant: the window limit is tested with > instead of >=
check_rate_limit_one_over(map, cfg, ip, t) ==
    LET state   == IF map[ip] = Absent THEN NewRateLimitState ELSE map[ip]
        blocked == state.blocked_until # <<>> /\ t < state.blocked_until[1]
        cleared == [state EXCEPT !.blocked_until = <<>>]
        pruned  == [cleared EXCEPT !.requests = retain_window(@, t, cfg)]
        recent  == recent_requests(pruned.requests, t)
    IN  IF blocked
        THEN [states |-> [map EXCEPT ![ip] = state],
              result |-> [err |-> "Blocked",
                          retry_after |-> duration_since(state.blocked_until[1], t)]]
        ELSE IF Len(pruned.requests) > cfg.requests_per_minute
        THEN [states |-> [map EXCEPT ![ip] =
                             [pruned EXCEPT !.blocked_until = <<t + BlockDuration>>]],
              result |-> [err |-> "ExceededLimit",
                          requests_made |-> Len(pruned.requests),
                          limit |-> cfg.requests_per_minute,
                          retry_after |-> BlockDuration]]
        ELSE IF recent >= cfg.burst_size
        THEN [states |-> [map EXCEPT ![ip] = pruned],
              result |-> [err |-> "BurstExceeded",
                          burst_count |-> recent,
                          burst_limit |-> cfg.burst_size]]
        ELSE [states |-> [map EXCEPT ![ip] =
                             [pruned EXCEPT !.requests = Append(@, t)]],
              result |-> Ok]

\* check_rate_limit(ip) at instant t: the map afterwards and the value returned
check_rate_limit(map, cfg, ip, t) ==
    LET state   == IF map[ip] = Absent THEN NewRateLimitState ELSE map[ip]
        blocked == state.blocked_until # <<>> /\ t < state.blocked_until[1]
        cleared == [state EXCEPT !.blocked_until = <<>>]
        pruned  == [cleared EXCEPT !.requests = retain_window(@, t, cfg)]
        recent  == recent_requests(pruned.requests, t)
    IN  IF blocked
        THEN [states |-> [map EXCEPT ![ip] = state],
              result |-> [err |-> "Blocked",
                          retry_after |-> duration_since(state.blocked_until[1], t)]]
        ELSE IF Len(pruned.requests) >= cfg.requests_per_minute
        THEN [states |-> [map EXCEPT ![ip] =
                             [pruned EXCEPT !.blocked_until = <<t + BlockDuration>>]],
              result |-> [err |-> "ExceededLimit",
                          requests_made |-> Len(pruned.requests),
                          limit |-> cfg.requests_per_minute,
                          retry_after |-> BlockDuration]]
        ELSE IF recent >= cfg.burst_size
        THEN [states |-> [map EXCEPT ![ip] = pruned],
              result |-> [err |-> "BurstExceeded",
                          burst_count |-> recent,
                          burst_limit |-> cfg.burst_size]]
        ELSE [states |-> [map EXCEPT ![ip] =
                             [pruned EXCEPT !.requests = Append(@, t)]],
              result |-> Ok]

\* the closure of cleanup_expired's retain: is the entry kept at instant t
cleanup_keeps(state, cfg, t) ==
    \/ state.blocked_until # <<>>
    \/ state.requests # <<>>
    \/ \E i \in DOMAIN state.requests :
          duration_since(t, state.requests[i]) < cfg.window_size

\* cleanup_expired() at instant t: the map afterwards
cleanup_expired(map, cfg, t) ==
    [ip \in DOMAIN map |->
        IF map[ip] # Absent /\ cleanup_keeps(map[ip], cfg, t) THEN map[ip] ELSE Absent]

\* C15 mutant: lock() returns without waiting for the holder
can_lock_while_held(holder) == TRUE

\* Mutex::lock returns once no thread holds the mutex
can_lock(holder) == holder = None

\* the threads calling check_rate_limit, and the one running cleanup_expired
Callers == {"req1", "req2"}
Sweeper == "sweep"
Threads == Callers \cup {Sweeper}

IdleThread == [pc |-> "idle"]

\* states.entry(ip).or_insert(RateLimitState { .. })
or_insert(map, ip) ==
    IF map[ip] = Absent THEN [map EXCEPT ![ip] = NewRateLimitState] ELSE map

\* RateLimitConfig::default()
DefaultRateLimitConfig ==
    [requests_per_minute |-> 60, burst_size |-> 10, window_size |-> 60]

-----------------------------------------------------------------------------
(* middleware.rs and main.rs: the layers around every route.  A path is the *)
(* sequence of its characters, a header map the set of its <<name, value>>  *)
(* pairs, an audit event its type, the middleware that logged it and its    *)
(* risk score.                                                              *)

\* str::starts_with
starts_with(path, prefix) ==
    /\ Len(path) >= Len(prefix)
    /\ SubSeq(path, 1, Len(prefix)) = prefix

AuditEvent(event_type, by, risk_score) ==
    [event_type |-> event_type, by |-> by, risk_score |-> risk_score]

\* StatusCode::TOO_MANY_REQUESTS
TOO_MANY_REQUESTS == 429

\* retry_after.as_secs().to_string(): whole seconds in decimal digits
as_secs_to_string(duration) == ToString(duration)

\* C14 mutant: the answer to a blocked client has no Retry-After header
rate_limit_rejection_bare_blocked(result) ==
    IF result.err = "ExceededLimit"
    THEN [event    |-> AuditEvent("RateLimitExceeded", "security_middleware", 40),
          response |-> [status  |-> TOO_MANY_REQUESTS,
                        headers |-> {<<"Retry-After", as_secs_to_string(result.retry_after)>>,
                                     <<"X-RateLimit-Limit", ToString(result.limit)>>,
                                     <<"X-RateLimit-Remaining", "0">>},
                        body    |-> "Rate limit exceeded. Please try again later."]]
    ELSE IF result.err = "BurstExceeded"
    THEN [event    |-> AuditEvent("RateLimitExceeded", "security_middleware", 35),
          response |-> [status |-> TOO_MANY_REQUESTS, headers |-> {}, body |-> ""]]
    ELSE [event    |-> AuditEvent("AccessDenied", "security_middleware", 80),
          response |-> [status  |-> TOO_MANY_REQUESTS,
                        headers |-> {},
                        body    |-> "IP temporarily blocked. Please try again later."]]

\* security_middleware, the three Err arms of its match on check_rate_limit:
\* the event handed to the audit logger and the response returned.
\* Err(StatusCode) becomes a response with that status and nothing else.
rate_limit_rejection(result) ==
    IF result.err = "ExceededLimit"
    THEN [event    |-> AuditEvent("RateLimitExceeded", "security_middleware", 40),
          response |-> [status  |-> TOO_MANY_REQUESTS,
                        headers |-> {<<"Retry-After", as_secs_to_string(result.retry_after)>>,
                                     <<"X-RateLimit-Limit", ToString(result.limit)>>,
                                     <<"X-RateLimit-Remaining", "0">>},
                        body    |-> "Rate limit exceeded. Please try again later."]]
    ELSE IF result.err = "BurstExceeded"
    THEN [event    |-> AuditEvent("RateLimitExceeded", "security_middleware", 35),
          response |-> [status |-> TOO_MANY_REQUESTS, headers |-> {}, body |-> ""]]
    ELSE [event    |-> AuditEvent("AccessDenied", "security_middleware", 80),
          response |-> [status  |-> TOO_MANY_REQUESTS,
                        headers |-> {<<"Retry-After", as_secs_to_string(result.retry_after)>>},
                        body    |-> "IP temporarily blocked. Please try again later."]]

\* C16 mutant: the Err arms fall through to next.run
stage_after_check_falls_through(result) == "forward"

\* where security_middleware goes after its match: the Err arms log and
\* return, the Ok arm goes on to next.run
stage_after_check(result) ==
    IF "err" \in DOMAIN result THEN "reject" ELSE "forward"

\* StatusCode::is_success
is_success(status) == status >= 200 /\ status < 300

\* the headers security_middleware puts on a response that came back from
\* next.run; X-Response-Time only with performance monitoring switched on
security_headers(performance_monitoring_enabled) ==
    {<<"X-Content-Type-Options", "nosniff">>,
     <<"X-Frame-Options", "DENY">>,
     <<"X-XSS-Protection", "1; mode=block">>,
     <<"Referrer-Policy", "strict-origin-when-cross-origin">>,
     <<"X-Request-ID", "request_id">>}
    \cup (IF performance_monitoring_enabled
          THEN {<<"X-Response-Time", "duration_ms">>} ELSE {})

NoRequest == [at |-> "none"]

-----------------------------------------------------------------------------
(* security.rs: AccountSecurity and AccountSecurityService.  DateTimes and  *)
(* Durations are whole minutes; an Option is <<>> for None and <<v>> for    *)
(* Some(v); a Vec is a sequence.                                            *)

\* AccountSecurity::new at instant t (the fields no method of the service
\* reads or writes are left out: id, mfa_*, backup_codes, notifications)
AccountSecurity_new(developer_id, t) ==
    [developer_id              |-> developer_id,
     failed_attempts           |-> 0,
     last_failed_attempt       |-> <<>>,
     locked_until              |-> <<>>,
     lock_reason               |-> <<>>,
     last_successful_login     |-> <<>>,
     login_count               |-> 0,
     suspicious_activity_score |-> 0,
     suspicious_ips            |-> <<>>,
     password_last_changed     |-> t,
     password_history_hashes   |-> <<>>,
     created_at                |-> t,
     updated_at                |-> t]

\* Vec::contains
contains(vec, x) == \E i \in DOMAIN vec : vec[i] = x

\* Vec::truncate
truncate(vec, len) == IF Len(vec) > len THEN SubSeq(vec, 1, len) ELSE vec

\* format!("Account locked due to {} consecutive failed login attempts", n)
lock_reason_text(n) ==
    "Account locked due to " \o ToString(n) \o " consecutive failed login attempts"

\* C17 mutant: the multiplier lacks its + 1
lock_duration_from_zero(cfg, failed_attempts) ==
    IF cfg.progressive_lockout
    THEN cfg.lockout_duration_minutes * (failed_attempts - cfg.max_failed_attempts)
    ELSE cfg.lockout_duration_minutes

\* C18 mutant: the lockout grows by half the base with every failure
lock_duration_half_steps(cfg, failed_attempts) ==
    IF cfg.progressive_lockout
    THEN (cfg.lockout_duration_minutes
            * ((failed_attempts - cfg.max_failed_attempts) + 2)) \div 2
    ELSE cfg.lockout_duration_minutes

\* C19 mutant: the lockout shrinks with every failure past the maximum
lock_duration_shrinking(cfg, failed_attempts) ==
    IF cfg.progressive_lockout
    THEN cfg.lockout_duration_minutes
           \div ((failed_attempts - cfg.max_failed_attempts) + 1)
    ELSE cfg.lockout_duration_minutes

\* the lock_duration of record_failed_attempt, in minutes
lock_duration(cfg, failed_attempts) ==
    IF cfg.progressive_lockout
    THEN cfg.lockout_duration_minutes
           * ((failed_attempts - cfg.max_failed_attempts) + 1)
    ELSE cfg.lockout_duration_minutes

\* C20 mutant: every failing address is marked, from the first failure on
marks_suspicious_always(failed_attempts, suspicious_ips, ip_address) ==
    ~contains(suspicious_ips, ip_address)

\* the test guarding "Add to suspicious IPs if multiple failures"
marks_suspicious(failed_attempts, suspicious_ips, ip_address) ==
    failed_attempts >= 3 /\ ~contains(suspicious_ips, ip_address)

\* record_failed_attempt at instant t: the record afterwards and the action
record_failed_attempt(security_, cfg, ip_address, t) ==
    LET counted == [security_ EXCEPT !.failed_attempts = @ + 1,
                                     !.last_failed_attempt = <<t>>,
                                     !.updated_at = t]
        marked  == IF marks_suspicious(counted.failed_attempts,
                                       counted.suspicious_ips, ip_address)
                   THEN [counted EXCEPT
                            !.suspicious_ips = Append(@, ip_address),
                            !.suspicious_activity_score = @ + 10]
                   ELSE counted
        duration == lock_duration(cfg, marked.failed_attempts)
        reason   == lock_reason_text(marked.failed_attempts)
    IN  IF marked.failed_attempts >= cfg.max_failed_attempts
        THEN [security |-> [marked EXCEPT !.locked_until = <<t + duration>>,
                                          !.lock_reason = <<reason>>],
              result   |-> [action |-> "AccountLocked",
                            duration |-> duration, reason |-> reason]]
        ELSE [security |-> marked,
              result   |-> [action |-> "IncrementFailures",
                            current_count |-> marked.failed_attempts,
                            max_attempts |-> cfg.max_failed_attempts]]

\* C29 mutant: a successful login also lifts the lock
record_successful_login_unlocks(security_, ip_address, t) ==
    [security_ EXCEPT
        !.failed_attempts = 0,
        !.last_failed_attempt = <<>>,
        !.last_successful_login = <<t>>,
        !.login_count = @ + 1,
        !.updated_at = t,
        !.suspicious_ips = SelectSeq(@, LAMBDA ip : ip # ip_address),
        !.suspicious_activity_score = IF @ - 5 > 0 THEN @ - 5 ELSE 0,
        !.locked_until = <<>>,
        !.lock_reason = <<>>]

\* C21 mutant: the score is lowered by 5 without the floor at 0
record_successful_login_no_floor(security_, ip_address, t) ==
    [security_ EXCEPT
        !.failed_attempts = 0,
        !.last_failed_attempt = <<>>,
        !.last_successful_login = <<t>>,
        !.login_count = @ + 1,
        !.updated_at = t,
        !.suspicious_ips = SelectSeq(@, LAMBDA ip : ip # ip_address),
        !.suspicious_activity_score = @ - 5]

\* record_successful_login at instant t
record_successful_login(security_, ip_address, t) ==
    [security_ EXCEPT
        !.failed_attempts = 0,
        !.last_failed_attempt = <<>>,
        !.last_successful_login = <<t>>,
        !.login_count = @ + 1,
        !.updated_at = t,
        !.suspicious_ips = SelectSeq(@, LAMBDA ip : ip # ip_address),
        !.suspicious_activity_score = IF @ - 5 > 0 THEN @ - 5 ELSE 0]

\* can_use_password
can_use_password(security_, password_hash) ==
    ~contains(security_.password_history_hashes, password_hash)

\* record_password_change at instant t
record_password_change(security_, cfg, new_password_hash, t) ==
    LET inserted == IF security_.password_history_hashes # <<>>
                    THEN <<new_password_hash>> \o security_.password_history_hashes
                    ELSE security_.password_history_hashes
    IN  [security_ EXCEPT
            !.password_history_hashes = truncate(inserted, cfg.password_history_count),
            !.password_last_changed = t,
            !.updated_at = t,
            !.failed_attempts = 0,
            !.locked_until = <<>>,
            !.lock_reason = <<>>]

\* C25 mutant: the suspicious activity score survives the unlock
unlock_account_keeps_score(security_, reason, t) ==
    [security_ EXCEPT
        !.locked_until = <<>>,
        !.lock_reason = <<>>,
        !.failed_attempts = 0,
        !.updated_at = t]

\* unlock_account at instant t
unlock_account(security_, reason, t) ==
    [security_ EXCEPT
        !.locked_until = <<>>,
        !.lock_reason = <<>>,
        !.failed_attempts = 0,
        !.suspicious_activity_score = 0,
        !.updated_at = t]

\* AccountSecurity::is_locked at instant t
is_locked(security_, t) ==
    IF security_.locked_until # <<>>
    THEN t < security_.locked_until[1]
    ELSE FALSE

\* C24 mutant: failed attempts count towards the risk from the first one
risk_score_every_failure(security_, ip_address) ==
    (IF contains(security_.suspicious_ips, ip_address) THEN 20 ELSE 0)
    + security_.failed_attempts * 5
    + security_.suspicious_activity_score

\* risk_score at the match of detect_suspicious_activity
risk_score(security_, ip_address) ==
    (IF contains(security_.suspicious_ips, ip_address) THEN 20 ELSE 0)
    + (IF security_.failed_attempts > 2 THEN security_.failed_attempts * 5 ELSE 0)
    + security_.suspicious_activity_score

\* the match on risk_score
SuspiciousActivityLevel(risk) ==
    IF risk >= 0 /\ risk <= 20 THEN "Low"
    ELSE IF risk >= 21 /\ risk <= 50 THEN "Medium"
    ELSE IF risk >= 51 /\ risk <= 80 THEN "High"
    ELSE "Critical"

\* detect_suspicious_activity
detect_suspicious_activity(security_, ip_address) ==
    SuspiciousActivityLevel(risk_score(security_, ip_address))

\* SecurityConfig::default()
DefaultSecurityConfig ==
    [max_failed_attempts          |-> 5,
     lockout_duration_minutes     |-> 30,
     progressive_lockout          |-> TRUE,
     suspicious_activity_threshold |-> 50,
     password_history_count       |-> 12,
     require_password_change_days |-> 90]

\* the variables Config::from_env reads for the two services
EnvNames == {"RATE_LIMIT_REQUESTS_PER_MINUTE", "RATE_LIMIT_BURST_SIZE",
             "RATE_LIMIT_WINDOW_SECONDS", "MAX_FAILED_ATTEMPTS",
             "ACCOUNT_LOCKOUT_DURATION_MINUTES"}

\* env::var(name).unwrap_or_else(|_| default): the text that is parsed
unwrap_or_else(environment, name, default) ==
    IF environment[name] = <<>> THEN default ELSE environment[name][1]

\* the decimal texts of the model and the numbers they stand for
Decimal == [text \in {"-1", "0", "1", "5", "10", "30", "60"} |->
              CASE text = "-1" -> -1
                [] text = "0"  -> 0
                [] text = "1"  -> 1
                [] text = "5"  -> 5
                [] text = "10" -> 10
                [] text = "30" -> 30
                [] text = "60" -> 60]

\* str::parse::<u64>() and ::<u32>(): Err on a sign or on a non-digit
parse_unsigned(text) ==
    IF text \in DOMAIN Decimal /\ Decimal[text] >= 0
    THEN <<Decimal[text]>> ELSE <<>>

\* str::parse::<i32>() and ::<i64>(): Err on a non-digit
parse_signed(text) ==
    IF text \in DOMAIN Decimal THEN <<Decimal[text]>> ELSE <<>>

\* Config::from_env: the parsed fields, each Some(value) or none on Err
from_env_fields(environment) ==
    [rate_limit_requests_per_minute |->
        parse_unsigned(unwrap_or_else(environment,
                                      "RATE_LIMIT_REQUESTS_PER_MINUTE", "60")),
     rate_limit_burst_size |->
        parse_unsigned(unwrap_or_else(environment, "RATE_LIMIT_BURST_SIZE", "10")),
     rate_limit_window_seconds |->
        parse_unsigned(unwrap_or_else(environment,
                                      "RATE_LIMIT_WINDOW_SECONDS", "60")),
     max_failed_attempts |->
        parse_signed(unwrap_or_else(environment, "MAX_FAILED_ATTEMPTS", "5")),
     account_lockout_duration_minutes |->
        parse_signed(unwrap_or_else(environment,
                                    "ACCOUNT_LOCKOUT_DURATION_MINUTES", "30"))]

\* Config::from_env: Ok(Config) as <<config>>, or Err from a `?` as <<>>
from_env(environment) ==
    LET fields == from_env_fields(environment)
    IN  IF \E f \in DOMAIN fields : fields[f] = <<>>
        THEN <<>>
        ELSE <<[f \in DOMAIN fields |-> fields[f][1]]>>

\* main: the SecurityConfig built from the Config; the fields whose
\* variables are left unset here have the values from_env defaults to
security_config_of(cfg) ==
    [DefaultSecurityConfig EXCEPT
        !.max_failed_attempts = cfg.max_failed_attempts,
        !.lockout_duration_minutes = cfg.account_lockout_duration_minutes]

\* main: the RateLimitConfig built from the Config (`as u32` changes no
\* value below 2^32, and Duration::from_secs keeps the seconds)
rate_limit_config_of(cfg) ==
    [requests_per_minute |-> cfg.rate_limit_requests_per_minute,
     burst_size |-> cfg.rate_limit_burst_size,
     window_size |-> cfg.rate_limit_window_seconds]

-----------------------------------------------------------------------------
(* Values of the variables a specification leaves alone *)

IdleMatch == m_call = NoCall
IdleUserRoles == ur = UserRoles_new("u1", "ReadOnly") /\ ur_ret = NoCall
IdleRbac == user_roles = [u \in Users |-> Absent] /\ ret = NoCall
IdleRate ==
    /\ now = 0
    /\ config = DefaultRateLimitConfig
    /\ states = [k \in Keys |-> Absent]
    /\ rl_ret = NoCall
IdleIngress == request = NoRequest /\ audit_log = <<>> /\ response = NoCall
IdleLock == lock = None /\ threads = [th \in Threads |-> IdleThread]
IdleStartup == env = [name \in EnvNames |-> <<>>] /\ app = [at |-> "none"]
IdleOkTimes == ok_times = [k \in Keys |-> <<>>]
IdleSecurity ==
    /\ utc = 0
    /\ security = AccountSecurity_new("dev1", 0)
    /\ sec_config = DefaultSecurityConfig
    /\ sec_ret = NoCall
    /\ last_lockout = <<>>
    /\ failed_ips = {}
    /\ pw_changes = <<>>

-----------------------------------------------------------------------------
(* SpecMatch: one call of Permission::matches on arguments drawn at the start *)

InitMatch ==
    /\ m_call \in [held : HeldPerms, required : ReqPerms, context : Contexts,
                   done : {FALSE}, ret : {FALSE}]
    /\ IdleUserRoles /\ IdleRbac /\ IdleRate
    /\ IdleIngress /\ IdleLock /\ IdleSecurity
    /\ IdleStartup /\ IdleOkTimes

MatchesCall ==
    /\ ~m_call.done
    /\ m_call' = [m_call EXCEPT !.done = TRUE,
                                !.ret = matches(m_call.held, m_call.required, m_call.context)]
    /\ UNCHANGED <<ur, ur_ret, user_roles, ret, now, config, states, rl_ret>>
    /\ UNCHANGED <<ingress_vars, startup_vars, ok_times, lock_vars, security_vars>>

NextMatch == MatchesCall

SpecMatch == InitMatch /\ [][NextMatch]_vars

-----------------------------------------------------------------------------
(* SpecUserRoles: one UserRoles value and its methods *)

InitUserRoles ==
    /\ \E role \in Role : ur = UserRoles_new("u1", role)
    /\ ur_ret = NoCall
    /\ IdleMatch /\ IdleRbac /\ IdleRate
    /\ IdleIngress /\ IdleLock /\ IdleSecurity
    /\ IdleStartup /\ IdleOkTimes

UR_frame ==
    UNCHANGED <<m_call, user_roles, ret, now, config, states, rl_ret,
                ingress_vars, startup_vars, ok_times, lock_vars, security_vars>>

UR_add_role(role) ==
    /\ ur' = add_role(ur, role)
    /\ ur_ret' = NoCall
    /\ UR_frame

UR_remove_role(role) ==
    /\ ur' = remove_role(ur, role)
    /\ ur_ret' = NoCall
    /\ UR_frame

UR_add_permission(permission) ==
    /\ Cardinality(ur.custom_permissions \cup {permission}) <= MaxCustom
    /\ ur' = add_permission(ur, permission)
    /\ ur_ret' = NoCall
    /\ UR_frame

UR_deny_permission(permission) ==
    /\ Cardinality(ur.denied_permissions \cup {permission}) <= MaxDenied
    /\ ur' = deny_permission(ur, permission)
    /\ ur_ret' = NoCall
    /\ UR_frame

UR_has_permission(required, context) ==
    /\ ur_ret' = [op |-> "has_permission",
                  value |-> has_permission(ur, required, context)]
    /\ UNCHANGED ur
    /\ UR_frame

UR_get_effective_permissions ==
    /\ ur_ret' = [op |-> "get_effective_permissions",
                  value |-> get_effective_permissions(ur)]
    /\ UNCHANGED ur
    /\ UR_frame

NextUserRoles ==
    \/ \E role \in Role : UR_add_role(role)
    \/ \E role \in Role : UR_remove_role(role)
    \/ \E permission \in PermPool : UR_add_permission(permission)
    \/ \E permission \in PermPool : UR_deny_permission(permission)
    \/ \E required \in ReqPerms, context \in Contexts : UR_has_permission(required, context)
    \/ UR_get_effective_permissions

SpecUserRoles == InitUserRoles /\ [][NextUserRoles]_vars

-----------------------------------------------------------------------------
(* SpecRbac: RbacService and its map *)

InitRbac ==
    /\ user_roles = [u \in Users |-> Absent]
    /\ ret = NoCall
    /\ IdleMatch /\ IdleUserRoles /\ IdleRate
    /\ IdleIngress /\ IdleLock /\ IdleSecurity
    /\ IdleStartup /\ IdleOkTimes

RS_frame ==
    UNCHANGED <<m_call, ur, ur_ret, now, config, states, rl_ret,
                ingress_vars, startup_vars, ok_times, lock_vars, security_vars>>

RS_assign_role(user_id, role) ==
    /\ user_roles' = assign_role(user_roles, user_id, role)
    /\ ret' = [op |-> "assign_role", user_id |-> user_id, value |-> Ok]
    /\ RS_frame

RS_remove_role(user_id, role) ==
    /\ user_roles' = RbacService_remove_role(user_roles, user_id, role)
    /\ ret' = [op |-> "remove_role", user_id |-> user_id, value |-> Ok]
    /\ RS_frame

RS_check_permission(user_id, permission, context) ==
    /\ ret' = [op |-> "check_permission", user_id |-> user_id,
               permission |-> permission,
               value |-> check_permission(user_roles, user_id, permission, context)]
    /\ UNCHANGED user_roles
    /\ RS_frame

RS_authorize(user_id, permission, context) ==
    /\ ret' = [op |-> "authorize", user_id |-> user_id,
               permission |-> permission,
               value |-> authorize(user_roles, user_id, permission, context)]
    /\ UNCHANGED user_roles
    /\ RS_frame

NextRbac ==
    \/ \E user_id \in Registered, role \in Role : RS_assign_role(user_id, role)
    \/ \E user_id \in Users, role \in Role : RS_remove_role(user_id, role)
    \/ \E user_id \in Users, permission \in ReqPerms, context \in Contexts :
            RS_check_permission(user_id, permission, context)
    \/ \E user_id \in Users, permission \in ReqPerms, context \in Contexts :
            RS_authorize(user_id, permission, context)

SpecRbac == InitRbac /\ [][NextRbac]_vars

-----------------------------------------------------------------------------
(* SpecRate: a RateLimiter, its clock and its callers *)

\* configurations the limiter is built with (u32 and Duration allow zero)
RateLimitConfigs ==
    [requests_per_minute : {0, 1, 2}, burst_size : {0, 1, 3},
     window_size : {5, 60, 400}]

\* how far the clock moves between two calls
TimeSteps == {10, 50, 300}

InitRate ==
    /\ now = 0
    /\ config \in RateLimitConfigs
    /\ states = [k \in Keys |-> Absent]
    /\ rl_ret = NoCall
    /\ IdleMatch /\ IdleUserRoles /\ IdleRbac
    /\ IdleIngress /\ IdleLock /\ IdleSecurity
    /\ IdleStartup /\ IdleOkTimes

RL_frame ==
    UNCHANGED <<m_call, ur, ur_ret, user_roles, ret,
                ingress_vars, startup_vars, ok_times, lock_vars, security_vars>>

Tick(d) ==
    /\ now + d <= MaxTime
    /\ now' = now + d
    /\ rl_ret' = NoCall
    /\ UNCHANGED <<config, states>>
    /\ RL_frame

\* rl_ret.expired notes that the call found a block that had run out (the
\* else branch of `if now < blocked_until`)
RL_check_rate_limit(ip) ==
    LET out == check_rate_limit(states, config, ip, now)
        expired == /\ states[ip] # Absent
                   /\ states[ip].blocked_until # <<>>
                   /\ ~(now < states[ip].blocked_until[1])
    IN  /\ states' = out.states
        /\ rl_ret' = [op |-> "check_rate_limit", ip |-> ip, expired |-> expired,
                      result |-> out.result]
        /\ UNCHANGED <<now, config>>
        /\ RL_frame

RL_cleanup_expired ==
    /\ states' = cleanup_expired(states, config, now)
    /\ rl_ret' = [op |-> "cleanup_expired"]
    /\ UNCHANGED <<now, config>>
    /\ RL_frame

NextRate ==
    \/ \E d \in TimeSteps : Tick(d)
    \/ \E ip \in Keys : RL_check_rate_limit(ip)
    \/ RL_cleanup_expired

SpecRate == InitRate /\ [][NextRate]_vars

-----------------------------------------------------------------------------
(* SpecIngress: one request at a time through the layers of main.rs:        *)
(* security_middleware outermost, then auth_security_middleware, then       *)
(* rbac_middleware, then the route's handler                                *)

IngressConfigs ==
    {[requests_per_minute |-> 1, burst_size |-> 3, window_size |-> 60],
     [requests_per_minute |-> 2, burst_size |-> 1, window_size |-> 60]}

\* "/health", "/oauth/token", "/api/v1/income/report"
Paths ==
    {<<"/", "h", "e", "a", "l", "t", "h">>,
     <<"/", "o", "a", "u", "t", "h", "/", "t", "o", "k", "e", "n">>,
     <<"/", "a", "p", "i", "/", "v", "1", "/", "i", "n", "c", "o", "m", "e",
       "/", "r", "e", "p", "o", "r", "t">>}

\* statuses a handler answers with
HandlerStatuses == {200, 404}

InitIngress ==
    /\ now = 0
    /\ config \in IngressConfigs
    /\ states = [k \in Keys |-> Absent]
    /\ rl_ret = NoCall
    /\ IdleIngress
    /\ IdleMatch /\ IdleUserRoles /\ IdleRbac /\ IdleLock /\ IdleSecurity
    /\ IdleStartup /\ IdleOkTimes

IN_frame ==
    UNCHANGED <<m_call, ur, ur_ret, user_roles, ret, now, config, rl_ret,
                startup_vars, ok_times, lock_vars, security_vars>>

\* the clock moves on between two requests
IN_Tick(d) == request.at \in {"none", "done"} /\ Tick(d)

\* a request for `path` from `ip` enters security_middleware
SM_enter(ip, path) ==
    /\ request.at \in {"none", "done"}
    /\ request' = [at |-> "check", ip |-> ip, path |-> path, rate |-> NoCall,
                   ran |-> {"security_middleware"}, status |-> 0]
    /\ audit_log' = <<>>
    /\ response' = NoCall
    /\ UNCHANGED states
    /\ IN_frame

\* 1. Rate Limiting Check
SM_check_rate_limit ==
    /\ request.at = "check"
    /\ LET out == check_rate_limit(states, config, request.ip, now)
       IN  /\ states' = out.states
           /\ request' = [request EXCEPT !.rate = out.result,
                                         !.at = stage_after_check(out.result)]
    /\ UNCHANGED <<audit_log, response>>
    /\ IN_frame

\* an Err arm: the event is logged and the response returned
SM_reject ==
    /\ request.at = "reject"
    /\ audit_log' = Append(audit_log, rate_limit_rejection(request.rate).event)
    /\ response' = rate_limit_rejection(request.rate).response
    /\ request' = [request EXCEPT !.at = "done"]
    /\ UNCHANGED states
    /\ IN_frame

\* 2. and 3.: next.run(req) of security_middleware
SM_next_run ==
    /\ request.at = "forward"
    /\ request' = [request EXCEPT !.at = "auth_security_middleware",
                                  !.ran = @ \cup {"auth_security_middleware"}]
    /\ UNCHANGED <<states, audit_log, response>>
    /\ IN_frame

\* next.run(req) of auth_security_middleware
ASM_next_run ==
    /\ request.at = "auth_security_middleware"
    /\ request' = [request EXCEPT !.at = "rbac_middleware",
                                  !.ran = @ \cup {"rbac_middleware"}]
    /\ UNCHANGED <<states, audit_log, response>>
    /\ IN_frame

\* next.run(req) of rbac_middleware
RM_next_run ==
    /\ request.at = "rbac_middleware"
    /\ request' = [request EXCEPT !.at = "handler", !.ran = @ \cup {"handler"}]
    /\ UNCHANGED <<states, audit_log, response>>
    /\ IN_frame

\* the route's handler answers
Handler(status) ==
    /\ request.at = "handler"
    /\ request' = [request EXCEPT !.at = "rbac_log", !.status = status]
    /\ UNCHANGED <<states, audit_log, response>>
    /\ IN_frame

\* rbac_middleware after next.run: AccessGranted for paths under /api
RM_log ==
    /\ request.at = "rbac_log"
    /\ audit_log' =
          IF starts_with(request.path, <<"/", "a", "p", "i">>)
          THEN Append(audit_log, AuditEvent("AccessGranted", "rbac_middleware", 0))
          ELSE audit_log
    /\ request' = [request EXCEPT !.at = "auth_log"]
    /\ UNCHANGED <<states, response>>
    /\ IN_frame

\* auth_security_middleware after next.run: ApiAccess for paths under /oauth
ASM_log ==
    /\ request.at = "auth_log"
    /\ audit_log' =
          IF starts_with(request.path, <<"/", "o", "a", "u", "t", "h">>)
          THEN Append(audit_log,
                      AuditEvent("ApiAccess", "auth_security_middleware", 0))
          ELSE audit_log
    /\ request' = [request EXCEPT !.at = "api_access"]
    /\ UNCHANGED <<states, response>>
    /\ IN_frame

\* 4. and 5. of security_middleware: ApiAccess, then the security headers
SM_complete(performance_monitoring_enabled) ==
    /\ request.at = "api_access"
    /\ audit_log' =
          Append(audit_log,
                 AuditEvent("ApiAccess", "security_middleware",
                            IF is_success(request.status) THEN 0 ELSE 20))
    /\ response' = [status  |-> request.status,
                    headers |-> security_headers(performance_monitoring_enabled),
                    body    |-> "handler"]
    /\ request' = [request EXCEPT !.at = "done"]
    /\ UNCHANGED states
    /\ IN_frame

NextIngress ==
    \/ \E d \in TimeSteps : IN_Tick(d)
    \/ \E ip \in Keys, path \in Paths : SM_enter(ip, path)
    \/ SM_check_rate_limit
    \/ SM_reject
    \/ SM_next_run
    \/ ASM_next_run
    \/ RM_next_run
    \/ \E status \in HandlerStatuses : Handler(status)
    \/ RM_log
    \/ ASM_log
    \/ \E enabled \in BOOLEAN : SM_complete(enabled)

SpecIngress == InitIngress /\ [][NextIngress]_vars

-----------------------------------------------------------------------------
(* SpecLock: check_rate_limit and cleanup_expired step by step, on threads  *)
(* that share the limiter.  A thread's pc names the next thing it does;     *)
(* `seen` notes the map as it was when the thread got the mutex.            *)

\* ok_times once a call on `ip` made at instant t has returned Ok: t is
\* added, and the instants `keep` seconds or more before t are dropped
granted_at(times, keep, ip, t) ==
    [times EXCEPT ![ip] =
        Append(SelectSeq(@, LAMBDA earlier : t - earlier < keep), t)]

LockConfigs ==
    {[requests_per_minute |-> 1, burst_size |-> 1, window_size |-> 5],
     [requests_per_minute |-> 2, burst_size |-> 0, window_size |-> 60],
     [requests_per_minute |-> 2, burst_size |-> 3, window_size |-> 20]}

InitLock ==
    /\ now = 0
    /\ config \in LockConfigs
    /\ states = [k \in Keys |-> Absent]
    /\ rl_ret = NoCall
    /\ IdleLock
    /\ IdleMatch /\ IdleUserRoles /\ IdleRbac /\ IdleIngress /\ IdleSecurity
    /\ IdleStartup /\ IdleOkTimes

LK_frame ==
    UNCHANGED <<m_call, ur, ur_ret, user_roles, ret, config, rl_ret,
                ingress_vars, startup_vars, security_vars>>

\* the clock moves on, whatever the threads are doing
LK_Tick(d) == Tick(d) /\ UNCHANGED <<lock, threads>>

\* a thread calls check_rate_limit(ip) and asks for the mutex
LK_check_call(th, ip) ==
    /\ threads[th].pc = "idle"
    /\ threads' = [threads EXCEPT ![th] =
                      [pc |-> "lock", op |-> "check_rate_limit", ip |-> ip]]
    /\ UNCHANGED <<now, states, lock, ok_times>>
    /\ LK_frame

\* let mut states = self.states.lock().unwrap()
LK_check_lock(th) ==
    /\ threads[th].pc = "lock"
    /\ threads[th].op = "check_rate_limit"
    /\ can_lock(lock)
    /\ lock' = th
    /\ threads' = [threads EXCEPT ![th] =
                      [pc |-> "entry", op |-> "check_rate_limit",
                       ip |-> threads[th].ip, seen |-> states]]
    /\ UNCHANGED <<now, states, ok_times>>
    /\ LK_frame

\* let now = Instant::now(); let state = states.entry(..).or_insert(..)
LK_check_entry(th) ==
    /\ threads[th].pc = "entry"
    /\ states' = or_insert(states, threads[th].ip)
    /\ threads' = [threads EXCEPT ![th] =
                      [pc |-> "check", op |-> "check_rate_limit",
                       ip |-> threads[th].ip, seen |-> threads[th].seen,
                       t |-> now]]
    /\ UNCHANGED <<now, lock, ok_times>>
    /\ LK_frame

\* the block test, the retain, the two limits and the push, on the entry
LK_check_write(th) ==
    /\ threads[th].pc = "check"
    /\ LET out == check_rate_limit(states, config, threads[th].ip, threads[th].t)
       IN  /\ states' = out.states
           /\ threads' = [threads EXCEPT ![th] =
                             [pc |-> "unlock", op |-> "check_rate_limit",
                              ip |-> threads[th].ip, seen |-> threads[th].seen,
                              t |-> threads[th].t, result |-> out.result]]
           /\ ok_times' = IF out.result = Ok
                          THEN granted_at(ok_times, config.window_size,
                                          threads[th].ip, threads[th].t)
                          ELSE ok_times
    /\ UNCHANGED <<now, lock>>
    /\ LK_frame

\* the thread starts cleanup_expired() and asks for the mutex
LK_cleanup_call(th) ==
    /\ threads[th].pc = "idle"
    /\ threads' = [threads EXCEPT ![th] =
                      [pc |-> "lock", op |-> "cleanup_expired"]]
    /\ UNCHANGED <<now, states, lock, ok_times>>
    /\ LK_frame

\* let mut states = self.states.lock().unwrap()
LK_cleanup_lock(th) ==
    /\ threads[th].pc = "lock"
    /\ threads[th].op = "cleanup_expired"
    /\ can_lock(lock)
    /\ lock' = th
    /\ threads' = [threads EXCEPT ![th] =
                      [pc |-> "retain", op |-> "cleanup_expired", seen |-> states]]
    /\ UNCHANGED <<now, states, ok_times>>
    /\ LK_frame

\* let now = Instant::now(); states.retain(..)
LK_cleanup_retain(th) ==
    /\ threads[th].pc = "retain"
    /\ states' = cleanup_expired(states, config, now)
    /\ threads' = [threads EXCEPT ![th] =
                      [pc |-> "unlock", op |-> "cleanup_expired",
                       seen |-> threads[th].seen, t |-> now]]
    /\ UNCHANGED <<now, lock, ok_times>>
    /\ LK_frame

\* the function returns and the MutexGuard is dropped
LK_unlock(th) ==
    /\ threads[th].pc = "unlock"
    /\ lock' = None
    /\ threads' = [threads EXCEPT ![th] = IdleThread]
    /\ UNCHANGED <<now, states, ok_times>>
    /\ LK_frame

NextLock ==
    \/ \E d \in TimeSteps : LK_Tick(d)
    \/ \E th \in Callers, ip \in Keys : LK_check_call(th, ip)
    \/ \E th \in Callers : LK_check_lock(th)
    \/ \E th \in Callers : LK_check_entry(th)
    \/ \E th \in Callers : LK_check_write(th)
    \/ LK_cleanup_call(Sweeper)
    \/ LK_cleanup_lock(Sweeper)
    \/ LK_cleanup_retain(Sweeper)
    \/ \E th \in Threads : LK_unlock(th)

SpecLock == InitLock /\ [][NextLock]_vars

-----------------------------------------------------------------------------
(* SpecBurst: RateLimiter called by one thread on a clock of 5 s steps, so  *)
(* that several instants fall into one burst interval                       *)

BurstConfigs ==
    [requests_per_minute : {2, 4}, burst_size : {1, 2},
     window_size : {5, 10, 20}]

\* how far the clock moves between two calls
BurstSteps == {5}

InitBurst ==
    /\ now = 0
    /\ config \in BurstConfigs
    /\ states = [k \in Keys |-> Absent]
    /\ rl_ret = NoCall
    /\ ok_times = [k \in Keys |-> <<>>]
    /\ IdleMatch /\ IdleUserRoles /\ IdleRbac
    /\ IdleIngress /\ IdleLock /\ IdleSecurity /\ IdleStartup

BU_frame ==
    UNCHANGED <<m_call, ur, ur_ret, user_roles, ret, config,
                ingress_vars, startup_vars, lock_vars, security_vars>>

BU_Tick(d) ==
    /\ now + d <= MaxBurstTime
    /\ now' = now + d
    /\ rl_ret' = NoCall
    /\ UNCHANGED <<states, ok_times>>
    /\ BU_frame

BU_check_rate_limit(ip) ==
    LET out == check_rate_limit(states, config, ip, now)
        keep == IF config.window_size > BurstInterval
                THEN config.window_size ELSE BurstInterval
    IN  /\ states' = out.states
        /\ rl_ret' = [op |-> "check_rate_limit", ip |-> ip, result |-> out.result]
        /\ ok_times' = IF out.result = Ok
                       THEN granted_at(ok_times, keep, ip, now)
                       ELSE ok_times
        /\ UNCHANGED now
        /\ BU_frame

BU_cleanup_expired ==
    /\ states' = cleanup_expired(states, config, now)
    /\ rl_ret' = [op |-> "cleanup_expired"]
    /\ UNCHANGED <<now, ok_times>>
    /\ BU_frame

NextBurst ==
    \/ \E d \in BurstSteps : BU_Tick(d)
    \/ \E ip \in Keys : BU_check_rate_limit(ip)
    \/ BU_cleanup_expired

SpecBurst == InitBurst /\ [][NextBurst]_vars

-----------------------------------------------------------------------------
(* SpecSecurity: one AccountSecurity record, the service's methods called   *)
(* on it by the login flow, and the clock                                   *)

SecurityConfigs ==
    [max_failed_attempts          : {2, 5},
     lockout_duration_minutes     : {30},
     progressive_lockout          : BOOLEAN,
     suspicious_activity_threshold : {50},
     password_history_count       : {12},
     require_password_change_days : {90}]

\* addresses the login attempts come from
IpAddresses == {"10.0.0.1", "10.0.0.2", "10.0.0.3"}

PasswordHashes == {"hash1"}

\* minutes the clock moves between two calls
UtcSteps == {30}

InitSecurity ==
    /\ utc = 0
    /\ security = AccountSecurity_new("dev1", 0)
    /\ sec_config \in SecurityConfigs
    /\ sec_ret = NoCall
    /\ last_lockout = <<>>
    /\ failed_ips = {}
    /\ pw_changes = <<>>
    /\ IdleMatch /\ IdleUserRoles /\ IdleRbac /\ IdleRate
    /\ IdleIngress /\ IdleLock /\ IdleStartup /\ IdleOkTimes

SEC_frame ==
    UNCHANGED <<m_call, ur, ur_ret, user_roles, ret, now, config, states, rl_ret,
                ingress_vars, startup_vars, ok_times, lock_vars, sec_config,
                pw_changes>>

SEC_Tick(d) ==
    /\ utc + d <= MaxUtc
    /\ utc' = utc + d
    /\ sec_ret' = NoCall
    /\ UNCHANGED <<security, last_lockout, failed_ips>>
    /\ SEC_frame

SEC_record_failed_attempt(ip_address) ==
    /\ security.failed_attempts < MaxFailedAttempts
    /\ LET out == record_failed_attempt(security, sec_config, ip_address, utc)
       IN  /\ security' = out.security
           /\ sec_ret' = [op |-> "record_failed_attempt",
                          ip_address |-> ip_address, result |-> out.result]
           /\ last_lockout' = IF out.result.action = "AccountLocked"
                              THEN <<out.result.duration>> ELSE last_lockout
    /\ failed_ips' = failed_ips \cup {ip_address}
    /\ UNCHANGED utc
    /\ SEC_frame

SEC_record_successful_login(ip_address) ==
    /\ security.login_count < MaxLogins
    /\ security' = record_successful_login(security, ip_address, utc)
    /\ sec_ret' = [op |-> "record_successful_login", ip_address |-> ip_address]
    /\ UNCHANGED <<utc, last_lockout, failed_ips>>
    /\ SEC_frame

SEC_record_password_change(new_password_hash) ==
    /\ security' = record_password_change(security, sec_config,
                                          new_password_hash, utc)
    /\ sec_ret' = [op |-> "record_password_change"]
    /\ UNCHANGED <<utc, last_lockout, failed_ips>>
    /\ SEC_frame

SEC_unlock_account ==
    /\ security' = unlock_account(security, "admin", utc)
    /\ sec_ret' = [op |-> "unlock_account"]
    /\ UNCHANGED <<utc, last_lockout, failed_ips>>
    /\ SEC_frame

NextSecurity ==
    \/ \E d \in UtcSteps : SEC_Tick(d)
    \/ \E ip \in IpAddresses : SEC_record_failed_attempt(ip)
    \/ \E ip \in IpAddresses : SEC_record_successful_login(ip)
    \/ \E h \in PasswordHashes : SEC_record_password_change(h)
    \/ SEC_unlock_account

SpecSecurity == InitSecurity /\ [][NextSecurity]_vars

-----------------------------------------------------------------------------
(* SpecPassword: the password history of one AccountSecurity record under   *)
(* record_password_change and can_use_password                              *)

PasswordConfigs ==
    [max_failed_attempts          : {5},
     lockout_duration_minutes     : {30},
     progressive_lockout          : {TRUE},
     suspicious_activity_threshold : {50},
     password_history_count       : {0, 1, 3},
     require_password_change_days : {90}]

\* the hashes the account's passwords are changed to
NewHashes == {"h1", "h2", "h3", "h4"}

\* password_history_hashes of the record the calls are made on: empty as
\* AccountSecurity::new leaves it, or one hash in a row read from the
\* database (AccountSecurity derives FromRow)
StoredHistories == {<<>>, <<"h0">>}

InitPassword ==
    /\ utc = 0
    /\ \E stored \in StoredHistories :
         security = [AccountSecurity_new("dev1", 0)
                        EXCEPT !.password_history_hashes = stored]
    /\ sec_config \in PasswordConfigs
    /\ sec_ret = NoCall
    /\ last_lockout = <<>>
    /\ failed_ips = {}
    /\ pw_changes = <<>>
    /\ IdleMatch /\ IdleUserRoles /\ IdleRbac /\ IdleRate
    /\ IdleIngress /\ IdleLock /\ IdleStartup /\ IdleOkTimes

PW_frame ==
    UNCHANGED <<m_call, ur, ur_ret, user_roles, ret, now, config, states, rl_ret,
                ingress_vars, startup_vars, ok_times, lock_vars, sec_config,
                last_lockout, failed_ips,
                utc>>

PW_record_password_change(new_password_hash) ==
    /\ Len(pw_changes) < MaxChanges
    /\ security' = record_password_change(security, sec_config,
                                          new_password_hash, utc)
    /\ sec_ret' = [op |-> "record_password_change",
                   new_password_hash |-> new_password_hash]
    /\ pw_changes' = <<new_password_hash>> \o pw_changes
    /\ PW_frame

PW_can_use_password(password_hash) ==
    /\ sec_ret' = [op |-> "can_use_password",
                   password_hash |-> password_hash,
                   value |-> can_use_password(security, password_hash)]
    /\ UNCHANGED <<security, pw_changes>>
    /\ PW_frame

NextPassword ==
    \/ \E h \in NewHashes : PW_record_password_change(h)
    \/ \E h \in NewHashes \cup {"h0"} : PW_can_use_password(h)

SpecPassword == InitPassword /\ [][NextPassword]_vars

-----------------------------------------------------------------------------
(* SpecStartup: main from Config::from_env to axum::serve, over the         *)
(* environments the process can be started in                               *)

\* what a variable of the environment can hold: nothing, or a text
EnvTexts == {"-1", "0", "1", "abc"}
Environments == [EnvNames -> {<<>>} \cup {<<text>> : text \in EnvTexts}]

InitStartup ==
    /\ env \in Environments
    /\ app = [at |-> "main"]
    /\ IdleMatch /\ IdleUserRoles /\ IdleRbac /\ IdleRate
    /\ IdleIngress /\ IdleLock /\ IdleSecurity /\ IdleOkTimes

ST_frame ==
    UNCHANGED <<m_call, ur, ur_ret, user_roles, ret, now, rl_ret,
                ingress_vars, ok_times, lock_vars, security, sec_ret,
                last_lockout, failed_ips, pw_changes, utc, env>>

\* let config = Config::from_env()...?;
ST_from_env ==
    /\ app.at = "main"
    /\ app' = IF from_env(env) = <<>>
              THEN [at |-> "exited", error |-> "configuration"]
              ELSE [at |-> "loaded", config |-> from_env(env)[1]]
    /\ UNCHANGED <<config, states, sec_config>>
    /\ ST_frame

\* the PostgreSQL pool and the MongoDB client: main returns Err when a
\* connection fails
ST_init_databases(connected) ==
    /\ app.at = "loaded"
    /\ app' = IF connected
              THEN [at |-> "connected", config |-> app.config]
              ELSE [at |-> "exited", error |-> "database"]
    /\ UNCHANGED <<config, states, sec_config>>
    /\ ST_frame

\* AccountSecurityService::new(security_config), RateLimiter::new(..)
ST_init_security_services ==
    /\ app.at = "connected"
    /\ sec_config' = security_config_of(app.config)
    /\ config' = rate_limit_config_of(app.config)
    /\ states' = [k \in Keys |-> Absent]
    /\ app' = [at |-> "initialized", config |-> app.config]
    /\ ST_frame

\* TcpListener::bind(..)?  and axum::serve(listener, app)
ST_serve(bound) ==
    /\ app.at = "initialized"
    /\ app' = IF bound
              THEN [at |-> "serving", config |-> app.config]
              ELSE [at |-> "exited", error |-> "bind"]
    /\ UNCHANGED <<config, states, sec_config>>
    /\ ST_frame

NextStartup ==
    \/ ST_from_env
    \/ \E connected \in BOOLEAN : ST_init_databases(connected)
    \/ ST_init_security_services
    \/ \E bound \in BOOLEAN : ST_serve(bound)

SpecStartup == InitStartup /\ [][NextStartup]_vars

-----------------------------------------------------------------------------
(* SpecAccount: one AccountSecurity record under the login flow's calls and *)
(* the questions asked about it: is_locked and detect_suspicious_activity   *)

AccountConfigs ==
    [max_failed_attempts          : {2},
     lockout_duration_minutes     : {30},
     progressive_lockout          : BOOLEAN,
     suspicious_activity_threshold : {50},
     password_history_count       : {12},
     require_password_change_days : {90}]

InitAccount ==
    /\ utc = 0
    /\ security = AccountSecurity_new("dev1", 0)
    /\ sec_config \in AccountConfigs
    /\ sec_ret = NoCall
    /\ last_lockout = <<>>
    /\ failed_ips = {}
    /\ pw_changes = <<>>
    /\ IdleMatch /\ IdleUserRoles /\ IdleRbac /\ IdleRate
    /\ IdleIngress /\ IdleLock /\ IdleStartup /\ IdleOkTimes

AC_frame ==
    UNCHANGED <<m_call, ur, ur_ret, user_roles, ret, now, config, states, rl_ret,
                ingress_vars, startup_vars, ok_times, lock_vars, sec_config,
                last_lockout, failed_ips,
                pw_changes>>

AC_Tick(d) ==
    /\ utc + d <= MaxUtc
    /\ utc' = utc + d
    /\ sec_ret' = NoCall
    /\ UNCHANGED security
    /\ AC_frame

AC_record_failed_attempt(ip_address) ==
    /\ security.failed_attempts < MaxFailedAttempts
    /\ LET out == record_failed_attempt(security, sec_config, ip_address, utc)
       IN  /\ security' = out.security
           /\ sec_ret' = [op |-> "record_failed_attempt",
                          ip_address |-> ip_address, result |-> out.result]
    /\ UNCHANGED utc
    /\ AC_frame

AC_record_successful_login(ip_address) ==
    /\ security.login_count < MaxLogins
    /\ security' = record_successful_login(security, ip_address, utc)
    /\ sec_ret' = [op |-> "record_successful_login", ip_address |-> ip_address]
    /\ UNCHANGED utc
    /\ AC_frame

AC_record_password_change(new_password_hash) ==
    /\ security' = record_password_change(security, sec_config,
                                          new_password_hash, utc)
    /\ sec_ret' = [op |-> "record_password_change"]
    /\ UNCHANGED utc
    /\ AC_frame

AC_unlock_account ==
    /\ security' = unlock_account(security, "admin", utc)
    /\ sec_ret' = [op |-> "unlock_account"]
    /\ UNCHANGED utc
    /\ AC_frame

AC_is_locked ==
    /\ sec_ret' = [op |-> "is_locked", value |-> is_locked(security, utc)]
    /\ UNCHANGED <<security, utc>>
    /\ AC_frame

AC_detect_suspicious_activity(ip_address) ==
    /\ sec_ret' = [op |-> "detect_suspicious_activity",
                   ip_address |-> ip_address,
                   value |-> detect_suspicious_activity(security, ip_address)]
    /\ UNCHANGED <<security, utc>>
    /\ AC_frame

NextAccount ==
    \/ \E d \in UtcSteps : AC_Tick(d)
    \/ \E ip \in IpAddresses : AC_record_failed_attempt(ip)
    \/ \E ip \in IpAddresses : AC_record_successful_login(ip)
    \/ \E h \in PasswordHashes : AC_record_password_change(h)
    \/ AC_unlock_account
    \/ AC_is_locked
    \/ \E ip \in IpAddresses : AC_detect_suspicious_activity(ip)

SpecAccount == InitAccount /\ [][NextAccount]_vars

-----------------------------------------------------------------------------
(* Properties of the RBAC engine *)

ProjectsCreate == Permission_new("projects", "create")
DocumentationRead == Permission_new("documentation", "read")
UpdateOwnIfOwner ==
    with_condition(Permission_new("projects", "update_own"), "owner", "self")

\* C1: has_permission is false whenever some denied permission matches
\* (required, context), even if a custom or role permission matches too;
\* when no denial matches it is true exactly if some custom permission or
\* some permission of an assigned role matches.
C1_DenialAlwaysWins ==
    \A required \in ReqPerms, context \in Contexts :
        LET denied  == \E d \in ur.denied_permissions : matches(d, required, context)
            granted == \/ \E p \in ur.custom_permissions : matches(p, required, context)
                       \/ \E role \in ur.roles : \E p \in get_permissions(role) :
                              matches(p, required, context)
        IN  /\ denied => ~has_permission(ur, required, context)
            /\ ~denied => (has_permission(ur, required, context) <=> granted)

\* has_permission returned false on a Developer record that holds
\* projects:create as a custom grant and as a denial, where it refuses
\* projects:create although the grant and the role both match
C1_Witness ==
    /\ "Developer" \in ur.roles
    /\ ProjectsCreate \in ur.custom_permissions
    /\ ProjectsCreate \in ur.denied_permissions
    /\ ur_ret.op = "has_permission"
    /\ ur_ret.value = FALSE
    /\ \A context \in Contexts :
            /\ matches(ProjectsCreate, ProjectsCreate, context)
            /\ ~has_permission(ur, ProjectsCreate, context)

RECURSIVE ReachableWithin(_, _)
\* the roles reached from the roles S in at most n steps along get_inherited_roles
ReachableWithin(S, n) ==
    IF n = 0 THEN S
    ELSE ReachableWithin(S \cup UNION {get_inherited_roles(r) : r \in S}, n - 1)

ReachableRoles(role) == ReachableWithin({role}, Cardinality(Role))

\* C2: the permissions of an assigned role include the permissions of every
\* role reachable from it through get_inherited_roles, in any number of steps.
C2_PermissionsCoverReachableRoles ==
    \A role \in ur.roles : \A reached \in ReachableRoles(role) :
        get_permissions(reached) \subseteq get_permissions(role)

\* Admin alone is assigned and its effective permissions hold a Developer
\* permission and a ReadOnly permission, which Admin reaches through Developer too
C2_Witness ==
    /\ ur.roles = {"Admin"}
    /\ ur_ret.op = "get_effective_permissions"
    /\ ProjectsCreate \in ur_ret.value
    /\ Permission_new("profile", "read_own") \in ur_ret.value
    /\ "ReadOnly" \in ReachableRoles("Developer")

\* what C3 asks of one condition of the required permission
C3_ConditionHolds(c, context) ==
    /\ c[1] \in {"owner", "project_owner", "environment"}
    /\ c = <<"owner", "self">> => context.resource_owner_id = context.user_id
    /\ c = <<"project_owner", "self">> => context.project_owner_id = context.user_id
    /\ c[1] = "environment" => context.environment = c[2]

\* C3: matches is true iff resource and action are equal and every condition
\* of the required permission holds in the context (owner=self, project_owner
\* =self, environment=v); a condition with any other key makes it false.
C3_MatchesIffConditionsHold ==
    m_call.done =>
        (m_call.ret <=>
            /\ m_call.held.resource = m_call.required.resource
            /\ m_call.held.action = m_call.required.action
            /\ \A c \in m_call.required.conditions :
                    C3_ConditionHolds(c, m_call.context))

\* the Developer permission projects:update_own did not match the request
\* with owner=self, the resource being owned by somebody else
C3_Witness ==
    /\ m_call.done
    /\ m_call.held = Permission_new("projects", "update_own")
    /\ m_call.required = UpdateOwnIfOwner
    /\ m_call.context.resource_owner_id = "u2"
    /\ m_call.ret = FALSE

ReadOnlyRecord(user_id) ==
    [user_id |-> user_id, roles |-> {"ReadOnly"},
     custom_permissions |-> {}, denied_permissions |-> {}]

\* C4: for a principal without a record check_permission returns what
\* has_permission returns for a record holding ReadOnly only: projects:create
\* is denied and documentation:read allowed.
C4_UnknownPrincipalIsReadOnly ==
    \A user_id \in Users :
        user_roles[user_id] = Absent =>
            /\ \A required \in ReqPerms, context \in Contexts :
                    check_permission(user_roles, user_id, required, context)
                        = has_permission(ReadOnlyRecord(user_id), required, context)
            /\ \A context \in Contexts :
                    /\ ~check_permission(user_roles, user_id, ProjectsCreate, context)
                    /\ check_permission(user_roles, user_id, DocumentationRead, context)

\* check_permission granted documentation:read to u2, who has no record
C4_Witness ==
    /\ user_roles["u2"] = Absent
    /\ ret.op = "check_permission"
    /\ ret.user_id = "u2"
    /\ ret.permission = DocumentationRead
    /\ ret.value = TRUE

\* C5: assign_role and remove_role applied twice give the map they give
\* applied once; assign_role for an absent principal creates the record with
\* ReadOnly and the assigned role; remove_role for an absent principal
\* leaves the map as it is.
C5_AssignRemoveIdempotent ==
    \A user_id \in Users, role \in Role :
        LET assigned == assign_role(user_roles, user_id, role)
            removed  == RbacService_remove_role(user_roles, user_id, role)
        IN  /\ assign_role(assigned, user_id, role) = assigned
            /\ RbacService_remove_role(removed, user_id, role) = removed
            /\ \A other \in Users \ {user_id} :
                    /\ assigned[other] = user_roles[other]
                    /\ removed[other] = user_roles[other]
            /\ user_roles[user_id] = Absent =>
                    /\ assigned[user_id] =
                            [user_id |-> user_id, roles |-> {"ReadOnly", role},
                             custom_permissions |-> {}, denied_permissions |-> {}]
                    /\ removed = user_roles

\* the first assign_role for u1 made its record, with ReadOnly and Developer
C5_Witness ==
    /\ ret.op = "assign_role"
    /\ ret.user_id = "u1"
    /\ user_roles["u1"] # Absent
    /\ user_roles["u1"].roles = {"ReadOnly", "Developer"}
    /\ user_roles["u2"] = Absent

\* C6: no effective permission has the resource and action of a denied
\* permission, and every effective permission, asked for without
\* conditions, is granted by has_permission on the same record.
C6_EffectivePermissionsAreGranted ==
    ur_ret.op = "get_effective_permissions" =>
        \A p \in ur_ret.value :
            /\ \A d \in ur.denied_permissions :
                    ~(d.resource = p.resource /\ d.action = p.action)
            /\ \A context \in Contexts :
                    has_permission(ur, Permission_new(p.resource, p.action), context)

\* C7: authorize returns Ok exactly when check_permission is true, otherwise
\* the Authorization error naming the principal and the permission's resource
\* and action; a check_permission or authorize call leaves the map as it was.
C7_AuthorizeFollowsCheck ==
    /\ [](\A user_id \in Users, required \in ReqPerms, context \in Contexts :
            LET result == authorize(user_roles, user_id, required, context)
            IN  IF check_permission(user_roles, user_id, required, context)
                THEN result = Ok
                ELSE result = [err |-> "Authorization", user_id |-> user_id,
                               resource |-> required.resource,
                               action |-> required.action])
    /\ [][ret'.op \in {"check_permission", "authorize"} => user_roles' = user_roles]_vars

\* authorize refused projects:create to u2, who has no record, and none was made
C7_Witness ==
    /\ user_roles["u2"] = Absent
    /\ ret.op = "authorize"
    /\ ret.user_id = "u2"
    /\ ret.permission = ProjectsCreate
    /\ ret.value = [err |-> "Authorization", user_id |-> "u2",
                    resource |-> "projects", action |-> "create"]

-----------------------------------------------------------------------------
(* Properties of the rate limiter *)

\* the key has a block that has not run out yet
ActiveBlock(ip) ==
    /\ states[ip] # Absent
    /\ states[ip].blocked_until # <<>>
    /\ now < states[ip].blocked_until[1]

\* the key has a block that has run out and no call has cleared it yet
ExpiredBlock(ip) ==
    /\ states[ip] # Absent
    /\ states[ip].blocked_until # <<>>
    /\ now >= states[ip].blocked_until[1]

StoredRequests(ip) == IF states[ip] = Absent THEN <<>> ELSE states[ip].requests

\* positions of the stored timestamps that lie inside the window at `now`
InWindow(ip) ==
    {i \in DOMAIN StoredRequests(ip) : now - StoredRequests(ip)[i] < config.window_size}

\* the map with the key's block taken away
Unblocked(ip) == [states EXCEPT ![ip] = [@ EXCEPT !.blocked_until = <<>>]]

\* C8: a call on a key whose block is active returns Blocked with
\* retry_after = blocked_until - now and changes nothing; a call at or after
\* blocked_until does not return Blocked, leaves no stale block behind and
\* does what the same call does on the key without the block.
C8_BlockedCallsChangeNothing ==
    [][\A ip \in Keys : RL_check_rate_limit(ip) =>
          /\ ActiveBlock(ip) =>
                /\ rl_ret'.result = [err |-> "Blocked",
                                     retry_after |-> states[ip].blocked_until[1] - now]
                /\ states' = states
          /\ ExpiredBlock(ip) =>
                /\ rl_ret'.result = check_rate_limit(Unblocked(ip), config, ip, now).result
                /\ states' = check_rate_limit(Unblocked(ip), config, ip, now).states
                /\ states'[ip].blocked_until \in {<<>>, <<now + BlockDuration>>}
      ]_vars

\* a call made 290 s before the end of a block was refused as Blocked, and
\* the block still ends when it did
C8_Witness ==
    /\ rl_ret.op = "check_rate_limit"
    /\ rl_ret.result = [err |-> "Blocked", retry_after |-> 290]
    /\ states["ip1"].blocked_until = <<now + 290>>

\* C9: a call on a key with no active block and at least requests_per_minute
\* stored timestamps inside the window returns ExceededLimit with that
\* count, the limit and retry_after = 300 s, blocks the key until now + 300 s
\* and stores no timestamp for the call.
C9_ExceededBlocksFiveMinutes ==
    [][\A ip \in Keys :
          ( /\ RL_check_rate_limit(ip)
            /\ ~ActiveBlock(ip)
            /\ Cardinality(InWindow(ip)) >= config.requests_per_minute ) =>
          /\ rl_ret'.result = [err |-> "ExceededLimit",
                               requests_made |-> Cardinality(InWindow(ip)),
                               limit |-> config.requests_per_minute,
                               retry_after |-> 300]
          /\ states'[ip].blocked_until = <<now + 300>>
          /\ Len(states'[ip].requests) = Cardinality(InWindow(ip))
          /\ \A j \in DOMAIN states'[ip].requests :
                \E i \in InWindow(ip) : states'[ip].requests[j] = StoredRequests(ip)[i]
      ]_vars

\* with a window of 400 s and a limit of 2, the third call was refused and
\* the key is blocked for 300 s, with the two earlier timestamps only
C9_Witness ==
    /\ config.window_size = 400
    /\ rl_ret.op = "check_rate_limit"
    /\ rl_ret.result = [err |-> "ExceededLimit", requests_made |-> 2, limit |-> 2,
                        retry_after |-> 300]
    /\ states["ip1"].blocked_until = <<now + 300>>
    /\ Len(states["ip1"].requests) = 2

\* what C10 says of one call on a key, under burst_size > requests_per_minute
C10_Scenario(ip) ==
    /\ (states[ip] = Absent \/ states[ip].blocked_until = <<>>) =>
          IF Cardinality(InWindow(ip)) < config.requests_per_minute
          THEN /\ rl_ret'.result = Ok
               /\ Len(states'[ip].requests) = Cardinality(InWindow(ip)) + 1
          ELSE /\ "err" \in DOMAIN rl_ret'.result
               /\ rl_ret'.result.err = "ExceededLimit"
               /\ states'[ip].blocked_until = <<now + BlockDuration>>
    /\ ExpiredBlock(ip) => rl_ret'.result = Ok

Recent(ip) ==
    {i \in InWindow(ip) : now - StoredRequests(ip)[i] < BurstInterval}

\* C11: a call on a key with no active block and fewer than
\* requests_per_minute timestamps in the window, which finds at least
\* burst_size timestamps less than 10 s old, returns BurstExceeded with that
\* count and burst_limit = burst_size, stores no timestamp for the call and
\* leaves the key without a block; once fewer than burst_size timestamps are
\* less than 10 s old such a call returns Ok.
C11_BurstRejectsWithoutRecording ==
    [][\A ip \in Keys :
          ( /\ RL_check_rate_limit(ip)
            /\ ~ActiveBlock(ip)
            /\ Cardinality(InWindow(ip)) < config.requests_per_minute ) =>
          IF Cardinality(Recent(ip)) >= config.burst_size
          THEN /\ rl_ret'.result = [err |-> "BurstExceeded",
                                    burst_count |-> Cardinality(Recent(ip)),
                                    burst_limit |-> config.burst_size]
               /\ states'[ip].blocked_until = <<>>
               /\ Len(states'[ip].requests) = Cardinality(InWindow(ip))
               /\ \A j \in DOMAIN states'[ip].requests :
                     \E i \in InWindow(ip) :
                        states'[ip].requests[j] = StoredRequests(ip)[i]
          ELSE rl_ret'.result = Ok
      ]_vars

\* under a limit of 2 and a burst size of 1 the second call of one instant
\* was refused for the burst; the key holds the first timestamp only and has
\* no block
C11_Witness ==
    /\ config = [requests_per_minute |-> 2, burst_size |-> 1, window_size |-> 60]
    /\ rl_ret.op = "check_rate_limit"
    /\ rl_ret.result = [err |-> "BurstExceeded", burst_count |-> 1, burst_limit |-> 1]
    /\ states["ip1"] = [requests |-> <<now>>, blocked_until |-> <<>>]

\* C12: under a limit and a burst size of at least 1, a cleanup run removes
\* every key that has neither an active block nor a stored timestamp inside
\* the window, and leaves every other key as it is.
C12_CleanupRemovesExpiredKeys ==
    [][( /\ RL_cleanup_expired
         /\ config.requests_per_minute >= 1
         /\ config.burst_size >= 1 ) =>
          \A ip \in Keys :
             IF ActiveBlock(ip) \/ InWindow(ip) # {}
             THEN states'[ip] = states[ip]
             ELSE states'[ip] = Absent
      ]_vars

\* the sequence without its k oldest entries
DropOldest(requests, k) == SubSeq(requests, k + 1, Len(requests))

\* the call on ip took away oldest entries only and added at most `now`
MonotonicallyPruned(ip) ==
    \E k \in 0..Len(StoredRequests(ip)) :
       \/ states'[ip].requests = DropOldest(StoredRequests(ip), k)
       \/ states'[ip].requests = Append(DropOldest(StoredRequests(ip), k), now)

\* every timestamp stored for ip after the step is newer than now - window_size
WindowHoldsAfter(ip) ==
    \A j \in DOMAIN states'[ip].requests :
       now - states'[ip].requests[j] < config.window_size

\* C13 as claimed: after every call on a key, whatever it returns, every
\* timestamp stored for the key is newer than now - window_size, and the call
\* took away oldest entries only and added at most the current instant.
C13_WindowHoldsAfterEveryCall ==
    [][\A ip \in Keys : RL_check_rate_limit(ip) =>
          /\ WindowHoldsAfter(ip)
          /\ MonotonicallyPruned(ip)
      ]_vars

\* C13 as amended: the same for a call that does not return Blocked; a call
\* returning Blocked leaves the stored sequence as it is, timestamps older
\* than the window included; no other step touches the stored sequence.
C13_WindowHoldsAfterUnblockedCall ==
    [][\A ip \in Keys :
          /\ RL_check_rate_limit(ip) =>
                /\ ~ActiveBlock(ip) => WindowHoldsAfter(ip)
                /\ ActiveBlock(ip) =>
                      /\ rl_ret'.result.err = "Blocked"
                      /\ states'[ip] = states[ip]
                /\ MonotonicallyPruned(ip)
          /\ ~RL_check_rate_limit(ip) =>
                StoredRequests(ip)' = StoredRequests(ip)
      ]_vars

\* under a limit of 1 and a window of 60 s, the call that found the block run
\* out dropped the timestamp stored before the block and stored its own
C13_Witness ==
    /\ config = [requests_per_minute |-> 1, burst_size |-> 3, window_size |-> 60]
    /\ rl_ret.op = "check_rate_limit"
    /\ rl_ret.expired
    /\ rl_ret.result = Ok
    /\ states["ip1"] = [requests |-> <<now>>, blocked_until |-> <<>>]

-----------------------------------------------------------------------------
(* Properties of the ingress layers *)

\* the request in flight was refused by the rate limiter
Rejected == request.at # "none" /\ "err" \in DOMAIN request.rate

C16_RejectedRequestIsNotForwarded ==
    Rejected =>
       /\ request.at \in {"reject", "done"}
       /\ request.ran = {"security_middleware"}
       /\ \A i \in DOMAIN audit_log :
             audit_log[i].event_type \notin {"ApiAccess", "AccessGranted"}
       /\ request.at = "reject" => (audit_log = <<>> /\ response = NoCall)
       /\ request.at = "done" =>
             /\ Len(audit_log) = 1
             /\ audit_log[1].event_type =
                   (IF request.rate.err = "Blocked"
                    THEN "AccessDenied" ELSE "RateLimitExceeded")
             /\ response.status = 429

\* a request under /api refused for a burst ended with one
\* RateLimitExceeded event and nothing else
C16_Witness ==
    /\ request.at = "done"
    /\ starts_with(request.path, <<"/", "a", "p", "i">>)
    /\ request.rate = [err |-> "BurstExceeded", burst_count |-> 1, burst_limit |-> 1]
    /\ request.ran = {"security_middleware"}
    /\ audit_log = <<AuditEvent("RateLimitExceeded", "security_middleware", 35)>>

-----------------------------------------------------------------------------
(* Properties of the limiter's mutex *)

\* the thread is inside the body of its method, from lock() to the return
InBody(th) == threads[th].pc \in {"entry", "check", "retain", "unlock"}

\* C15: a thread is inside check_rate_limit or cleanup_expired only while it
\* holds the mutex, so at most one is; while a check is between its lookup
\* and its write the key's entry is in the map and nothing but the lookup
\* has changed the map since the thread got the mutex; when a check returns
\* the map and the result are those of the whole call made on the map it
\* found; and when a cleanup returns the map is that of the whole sweep made
\* on the map it found, every entry with a timestamp or a block still there.
C15_CallsAreAtomic ==
    \A th \in Threads :
       /\ InBody(th) => lock = th
       /\ threads[th].pc = "check" =>
             /\ states[threads[th].ip] # Absent
             /\ states = or_insert(threads[th].seen, threads[th].ip)
       /\ (threads[th].pc = "unlock" /\ threads[th].op = "check_rate_limit") =>
             LET out == check_rate_limit(threads[th].seen, config,
                                         threads[th].ip, threads[th].t)
             IN  /\ states = out.states
                 /\ threads[th].result = out.result
       /\ (threads[th].pc = "unlock" /\ threads[th].op = "cleanup_expired") =>
             /\ states = cleanup_expired(threads[th].seen, config, threads[th].t)
             /\ \A ip \in Keys :
                   ( /\ threads[th].seen[ip] # Absent
                     /\ \/ threads[th].seen[ip].requests # <<>>
                        \/ threads[th].seen[ip].blocked_until # <<>> ) =>
                   states[ip] = threads[th].seen[ip]

\* a check has just inserted a fresh entry, which a sweep would remove, and
\* is about to write to it, while the sweeper and the other caller wait for
\* the mutex
C15_Witness ==
    /\ lock = "req1"
    /\ threads["req1"].pc = "check"
    /\ states[threads["req1"].ip] = NewRateLimitState
    /\ threads[Sweeper].pc = "lock"
    /\ threads["req2"].pc = "lock"

-----------------------------------------------------------------------------
(* Properties of the account security service *)

\* C17: record_failed_attempt adds exactly 1 to failed_attempts; below
\* max_failed_attempts it returns IncrementFailures with the new count and
\* the maximum and leaves locked_until and lock_reason alone; from
\* max_failed_attempts on it returns AccountLocked and sets locked_until to
\* now + the duration, which is the base times (failed_attempts -
\* max_failed_attempts + 1) in progressive mode and the base otherwise.
C17_FailedAttemptCountsAndLocks ==
    [][\A ip \in IpAddresses : SEC_record_failed_attempt(ip) =>
          LET n    == security.failed_attempts + 1
              max  == sec_config.max_failed_attempts
              base == sec_config.lockout_duration_minutes
              d    == IF sec_config.progressive_lockout
                      THEN base * (n - max + 1) ELSE base
          IN  /\ security'.failed_attempts = n
              /\ IF n < max
                 THEN /\ sec_ret'.result = [action |-> "IncrementFailures",
                                            current_count |-> n,
                                            max_attempts |-> max]
                      /\ security'.locked_until = security.locked_until
                      /\ security'.lock_reason = security.lock_reason
                 ELSE /\ sec_ret'.result.action = "AccountLocked"
                      /\ sec_ret'.result.duration = d
                      /\ security'.locked_until = <<utc + d>>
      ]_vars

\* at minute 30, the failure after the one that first locked the account
\* locked it for twice the base, until minute 90
C17_Witness ==
    /\ sec_config.max_failed_attempts = 2
    /\ sec_config.progressive_lockout
    /\ sec_ret.op = "record_failed_attempt"
    /\ sec_ret.result.action = "AccountLocked"
    /\ sec_ret.result.duration = 60
    /\ security.failed_attempts = 3
    /\ utc = 30
    /\ security.locked_until = <<90>>

\* the configuration C18 is about: 5 attempts, progressive, 30 minutes
C18_Config ==
    /\ sec_config.max_failed_attempts = 5
    /\ sec_config.progressive_lockout
    /\ sec_config.lockout_duration_minutes = 30

\* C18 as claimed: under that configuration the 6th failure in a row locks
\* the account for 30 minutes and the failure that makes failed_attempts 7
\* returns a lockout of 60 minutes.
C18_SixthFailureLocksThirtyMinutes ==
    [][\A ip \in IpAddresses :
          (SEC_record_failed_attempt(ip) /\ C18_Config) =>
             /\ security'.failed_attempts = 6 =>
                   /\ sec_ret'.result.action = "AccountLocked"
                   /\ sec_ret'.result.duration = 30
                   /\ security'.locked_until = <<utc + 30>>
             /\ security'.failed_attempts = 7 =>
                   /\ sec_ret'.result.action = "AccountLocked"
                   /\ sec_ret'.result.duration = 60
      ]_vars

\* C18 as amended: under that configuration the first four failures in a row
\* return IncrementFailures, the 5th locks the account for 30 minutes, the
\* 6th for 60 minutes and the one that makes failed_attempts 7 for 90.
C18_FifthFailureLocksThirtyMinutes ==
    [][\A ip \in IpAddresses :
          (SEC_record_failed_attempt(ip) /\ C18_Config) =>
             /\ security'.failed_attempts < 5 =>
                   sec_ret'.result.action = "IncrementFailures"
             /\ security'.failed_attempts >= 5 =>
                   /\ sec_ret'.result.action = "AccountLocked"
                   /\ security'.locked_until = <<utc + sec_ret'.result.duration>>
             /\ security'.failed_attempts = 5 => sec_ret'.result.duration = 30
             /\ security'.failed_attempts = 6 => sec_ret'.result.duration = 60
             /\ security'.failed_attempts = 7 => sec_ret'.result.duration = 90
      ]_vars

\* the 7th failure in a row returned a lockout of 90 minutes
C18_Witness ==
    /\ C18_Config
    /\ sec_ret.op = "record_failed_attempt"
    /\ security.failed_attempts = 7
    /\ sec_ret.result.action = "AccountLocked"
    /\ sec_ret.result.duration = 90

\* the step is a record_failed_attempt call in progressive mode that returns
\* AccountLocked on an account that was locked before
C19_LocksAgain ==
    /\ \E ip \in IpAddresses : SEC_record_failed_attempt(ip)
    /\ sec_config.progressive_lockout
    /\ sec_ret'.result.action = "AccountLocked"
    /\ last_lockout # <<>>

\* C19 as claimed: in progressive mode every AccountLocked result carries a
\* duration at least that of the AccountLocked result before it, whatever
\* calls of the service lie between the two.
C19_LockoutNeverShrinks ==
    [][C19_LocksAgain => sec_ret'.result.duration >= last_lockout[1]]_vars

\* C19 as amended: it does so when failed_attempts has not been reset since
\* the earlier lockout (it is still at or above the maximum), and then the
\* lockout is longer by the base; after a reset by record_successful_login,
\* record_password_change or unlock_account the next lockout is the base
\* again, shorter than an earlier one that was longer than the base.
C19_LockoutGrowsUntilReset ==
    [][C19_LocksAgain =>
          IF security.failed_attempts >= sec_config.max_failed_attempts
          THEN sec_ret'.result.duration =
                  last_lockout[1] + sec_config.lockout_duration_minutes
          ELSE /\ security.failed_attempts = sec_config.max_failed_attempts - 1
               /\ sec_ret'.result.duration = sec_config.lockout_duration_minutes
      ]_vars

\* in progressive mode a lockout of 90 minutes followed one of 60 minutes
C19_Witness ==
    /\ sec_config.progressive_lockout
    /\ sec_config.max_failed_attempts = 2
    /\ sec_ret.op = "record_failed_attempt"
    /\ security.failed_attempts = 4
    /\ sec_ret.result.action = "AccountLocked"
    /\ sec_ret.result.duration = 90
    /\ last_lockout = <<90>>

\* the step changes suspicious_ips or suspicious_activity_score
C20_Marks ==
    \/ security'.suspicious_ips # security.suspicious_ips
    \/ security'.suspicious_activity_score # security.suspicious_activity_score

\* no address is twice in the sequence
NoDuplicates(vec) ==
    \A i, j \in DOMAIN vec : vec[i] = vec[j] => i = j

\* C20 as claimed: record_failed_attempt touches suspicious_ips and the score
\* only once failures from three distinct addresses have been recorded for
\* the account; then it appends the failing address and adds 10, and no
\* address is ever twice in suspicious_ips.
C20_MarksAfterThirdDistinctAddress ==
    [][\A ip \in IpAddresses : SEC_record_failed_attempt(ip) =>
          /\ C20_Marks =>
                /\ Cardinality(failed_ips') >= 3
                /\ security'.suspicious_ips = Append(security.suspicious_ips, ip)
                /\ security'.suspicious_activity_score =
                      security.suspicious_activity_score + 10
          /\ NoDuplicates(security'.suspicious_ips)
      ]_vars

\* C20 as amended: record_failed_attempt appends the failing address to
\* suspicious_ips and adds 10 to the score exactly when the new
\* failed_attempts is 3 or more and the address is not yet in suspicious_ips,
\* however many distinct addresses the failures came from; otherwise it
\* leaves both alone; no address is ever twice in suspicious_ips.
C20_MarksFromThirdFailure ==
    [][\A ip \in IpAddresses : SEC_record_failed_attempt(ip) =>
          /\ IF /\ security.failed_attempts + 1 >= 3
                /\ ~contains(security.suspicious_ips, ip)
             THEN /\ security'.suspicious_ips = Append(security.suspicious_ips, ip)
                  /\ security'.suspicious_activity_score =
                        security.suspicious_activity_score + 10
             ELSE ~C20_Marks
          /\ NoDuplicates(security'.suspicious_ips)
      ]_vars

\* the third failure in a row, all three from one address, marked it
C20_Witness ==
    /\ sec_ret.op = "record_failed_attempt"
    /\ failed_ips = {"10.0.0.1"}
    /\ security.failed_attempts = 3
    /\ security.suspicious_ips = <<"10.0.0.1">>
    /\ security.suspicious_activity_score = 10

\* C21: record_successful_login sets failed_attempts to 0 and
\* last_failed_attempt to none, adds exactly 1 to login_count, takes the
\* given address and no other out of suspicious_ips, keeping the order of the
\* rest, and sets the score to max(score - 5, 0); and whatever the service
\* is called with, the score is never negative.
C21_SuccessfulLoginResets ==
    [][/\ security.suspicious_activity_score >= 0
       /\ security'.suspicious_activity_score >= 0
       /\ \A ip \in IpAddresses : SEC_record_successful_login(ip) =>
             /\ security'.failed_attempts = 0
             /\ security'.last_failed_attempt = <<>>
             /\ security'.login_count = security.login_count + 1
             /\ ~contains(security'.suspicious_ips, ip)
             /\ \A other \in IpAddresses \ {ip} :
                   contains(security'.suspicious_ips, other)
                      = contains(security.suspicious_ips, other)
             /\ \E removed \in 0..1 :
                   Len(security'.suspicious_ips) = Len(security.suspicious_ips) - removed
             /\ \A i, j \in DOMAIN security'.suspicious_ips :
                   i < j => \E k, l \in DOMAIN security.suspicious_ips :
                              /\ k < l
                              /\ security.suspicious_ips[k] = security'.suspicious_ips[i]
                              /\ security.suspicious_ips[l] = security'.suspicious_ips[j]
             /\ security'.suspicious_activity_score =
                   (IF security.suspicious_activity_score >= 5
                    THEN security.suspicious_activity_score - 5 ELSE 0)
      ]_vars

\* a login from 10.0.0.1 took it out of the two marked addresses and
\* lowered the score from 20 to 15
C21_Witness ==
    /\ sec_ret.op = "record_successful_login"
    /\ sec_ret.ip_address = "10.0.0.1"
    /\ security.login_count = 1
    /\ security.failed_attempts = 0
    /\ security.suspicious_ips = <<"10.0.0.2">>
    /\ security.suspicious_activity_score = 15

-----------------------------------------------------------------------------
(* Password history properties *)

\* C22: with password_history_count >= 1, record_password_change(account, h)
\* puts h at the front of the history, so that can_use_password(account, h)
\* is false right after it, whatever the history was before, the empty
\* history of a new account included; and can_use_password is true exactly
\* for the hashes that are not in the history.
C22_ChangedPasswordCannotBeReused ==
    [][/\ \A h \in NewHashes :
            (PW_record_password_change(h) /\ sec_config.password_history_count >= 1)
            => /\ security'.password_history_hashes # <<>>
               /\ security'.password_history_hashes[1] = h
               /\ ~can_use_password(security', h)
       /\ \A h \in NewHashes \cup {"h0"} :
            PW_can_use_password(h)
            => (sec_ret'.value
                  <=> \A i \in DOMAIN security.password_history_hashes :
                         security.password_history_hashes[i] # h)
      ]_vars

\* C23: after every record_password_change the history holds at most
\* password_history_count hashes, newest first, and what overflow drops is
\* the oldest entry; with password_history_count = 3 and four changes to
\* different hashes, the hash of the fourth newest change is absent and
\* can_use_password is true for it, while the hashes of the three newest
\* changes are present.
C23_HistoryKeepsTheNewest ==
    [][\A h \in NewHashes : PW_record_password_change(h) =>
         LET old == security.password_history_hashes
             new == security'.password_history_hashes
             count == sec_config.password_history_count
         IN  /\ Len(new) <= count
             /\ (count >= 1 => (new # <<>> /\ new[1] = h))
             /\ \A i \in DOMAIN new : i >= 2 => new[i] = old[i - 1]
             /\ (Len(old) >= count /\ count >= 1) =>
                   (Len(new) = count /\ new = <<h>> \o SubSeq(old, 1, count - 1))
             /\ (/\ count = 3
                 /\ Len(pw_changes') = 4
                 /\ Cardinality({pw_changes'[i] : i \in 1..4}) = 4)
                => /\ ~contains(new, pw_changes'[4])
                   /\ can_use_password(security', pw_changes'[4])
                   /\ \A i \in 1..3 : contains(new, pw_changes'[i])
      ]_vars

-----------------------------------------------------------------------------
(* Account state properties *)

\* C24 as stated: detect_suspicious_activity(account, ip) takes
\* risk = (20 if ip is in suspicious_ips, else 0) + failed_attempts * 5
\* + suspicious_activity_score for every value of failed_attempts, returns
\* Low for 0-20, Medium for 21-50, High for 51-80 and Critical from 81 on,
\* and changes no field of the account.
C24_RiskCountsEveryFailure ==
    [][\A ip \in IpAddresses : AC_detect_suspicious_activity(ip) =>
         LET risk == (IF contains(security.suspicious_ips, ip) THEN 20 ELSE 0)
                     + security.failed_attempts * 5
                     + security.suspicious_activity_score
         IN  /\ sec_ret'.value = (IF risk <= 20 THEN "Low"
                                  ELSE IF risk <= 50 THEN "Medium"
                                  ELSE IF risk <= 80 THEN "High"
                                  ELSE "Critical")
             /\ security' = security
      ]_vars

\* C24 amended: the failed attempts add failed_attempts * 5 to the risk only
\* when failed_attempts is above 2, and nothing when it is 0, 1 or 2; the
\* address adds 20 when it is in suspicious_ips and the score is added as it
\* is; the result is Low for 0-20, Medium for 21-50, High for 51-80 and
\* Critical from 81 on, and no field of the account changes.
C24_RiskCountsFailuresAboveTwo ==
    [][\A ip \in IpAddresses : AC_detect_suspicious_activity(ip) =>
         LET risk == (IF contains(security.suspicious_ips, ip) THEN 20 ELSE 0)
                     + (IF security.failed_attempts >= 3
                        THEN security.failed_attempts * 5 ELSE 0)
                     + security.suspicious_activity_score
         IN  /\ risk >= 0
             /\ sec_ret'.value = (IF risk <= 20 THEN "Low"
                                  ELSE IF risk <= 50 THEN "Medium"
                                  ELSE IF risk <= 80 THEN "High"
                                  ELSE "Critical")
             /\ security' = security
      ]_vars

\* two failures since the last reset and a marked address with score 0:
\* the risk is 20 and the answer is Low
C24_Witness ==
    /\ sec_ret.op = "detect_suspicious_activity"
    /\ security.failed_attempts = 2
    /\ contains(security.suspicious_ips, sec_ret.ip_address)
    /\ security.suspicious_activity_score = 0
    /\ sec_ret.value = "Low"

\* C25 as stated: after unlock_account locked_until and lock_reason are
\* none, failed_attempts and suspicious_activity_score are 0 and
\* suspicious_ips is empty, so that is_locked() is false and
\* detect_suspicious_activity returns Low for every address.
C25_UnlockResetsAllSuspicionState ==
    [][AC_unlock_account =>
         /\ security'.locked_until = <<>>
         /\ security'.lock_reason = <<>>
         /\ security'.failed_attempts = 0
         /\ security'.suspicious_activity_score = 0
         /\ security'.suspicious_ips = <<>>
         /\ ~is_locked(security', utc')
         /\ \A ip \in IpAddresses :
               detect_suspicious_activity(security', ip) = "Low"
      ]_vars

\* C25 amended: after unlock_account locked_until and lock_reason are none
\* and failed_attempts and suspicious_activity_score are 0, while
\* suspicious_ips is what it was before; is_locked() is false and
\* detect_suspicious_activity returns Low for every address, a marked
\* address having the risk 20 and any other the risk 0.
C25_UnlockKeepsSuspiciousIps ==
    [][AC_unlock_account =>
         /\ security'.locked_until = <<>>
         /\ security'.lock_reason = <<>>
         /\ security'.failed_attempts = 0
         /\ security'.suspicious_activity_score = 0
         /\ security'.suspicious_ips = security.suspicious_ips
         /\ ~is_locked(security', utc')
         /\ \A ip \in IpAddresses :
               /\ detect_suspicious_activity(security', ip) = "Low"
               /\ risk_score(security', ip)
                    = (IF contains(security.suspicious_ips, ip) THEN 20 ELSE 0)
      ]_vars

\* an account whose failures at minute 0 got two addresses marked has just
\* been unlocked, and both addresses are still marked
C25_Witness ==
    /\ sec_ret.op = "unlock_account"
    /\ security.last_failed_attempt = <<0>>
    /\ security.updated_at = 0
    /\ Len(security.suspicious_ips) = 2
    /\ security.suspicious_activity_score = 0
    /\ security.locked_until = <<>>

\* record_successful_login leaves the lock alone, and a locked account stays
\* locked until the clock moves, the password is changed or it is unlocked
LockSurvivesLogin ==
    /\ \A ip \in IpAddresses : AC_record_successful_login(ip) =>
          /\ security'.locked_until = security.locked_until
          /\ security'.lock_reason = security.lock_reason
          /\ security'.failed_attempts = 0
          /\ is_locked(security', utc') = is_locked(security, utc)
    /\ (is_locked(security, utc) /\ ~is_locked(security', utc')) =>
          \/ utc' > utc
          \/ \E h \in PasswordHashes : AC_record_password_change(h)
          \/ AC_unlock_account

\* C29 as stated: record_successful_login leaves locked_until and
\* lock_reason unchanged, so a locked account is still locked after a
\* successful login, with failed_attempts = 0, until the lock time passes or
\* record_password_change or unlock_account runs; and record_failed_attempt
\* on a locked account adds 1 to failed_attempts and puts a new lock in
\* place of locked_until that ends no earlier than the one it replaces.
C29_FailureOnLockedAccountLocksLonger ==
    [][/\ LockSurvivesLogin
       /\ \A ip \in IpAddresses :
            (AC_record_failed_attempt(ip) /\ is_locked(security, utc)) =>
               /\ security'.failed_attempts = security.failed_attempts + 1
               /\ sec_ret'.result.action = "AccountLocked"
               /\ security'.locked_until # <<>>
               /\ security'.locked_until[1] >= security.locked_until[1]
      ]_vars

\* C29 amended: the login part as stated; record_failed_attempt on a locked
\* account adds 1 to failed_attempts and leaves the account locked, and it
\* replaces locked_until, by now + lock_duration(failed_attempts), only when
\* the new failed_attempts has reached max_failed_attempts; below that, as
\* after a login that put the count to 0, locked_until stays as it is.
C29_FailureOnLockedAccountLocksFromMax ==
    [][/\ LockSurvivesLogin
       /\ \A ip \in IpAddresses :
            (AC_record_failed_attempt(ip) /\ is_locked(security, utc)) =>
               LET count == security.failed_attempts + 1
                   max == sec_config.max_failed_attempts
                   base == sec_config.lockout_duration_minutes
               IN  /\ security'.failed_attempts = count
                   /\ is_locked(security', utc')
                   /\ IF count >= max
                      THEN /\ sec_ret'.result.action = "AccountLocked"
                           /\ security'.locked_until =
                                 <<utc + (IF sec_config.progressive_lockout
                                          THEN base * (count - max + 1)
                                          ELSE base)>>
                      ELSE /\ sec_ret'.result.action = "IncrementFailures"
                           /\ security'.locked_until = security.locked_until
                           /\ security'.lock_reason = security.lock_reason
      ]_vars

\* a locked account logged in and then failed once: the count is 1, the
\* call did not lock, and the account is still locked by the old lock
C29_Witness ==
    /\ sec_ret.op = "record_failed_attempt"
    /\ sec_ret.result.action = "IncrementFailures"
    /\ security.failed_attempts = 1
    /\ security.login_count = 1
    /\ is_locked(security, utc)

-----------------------------------------------------------------------------
(* Startup properties *)

\* C26: a requests_per_minute, burst_size, window_size, max_failed_attempts
\* or lockout duration that is not positive is fatal at startup: the service
\* is never serving requests with a RateLimiter or an
\* AccountSecurityService built from such a value.
C26_NonPositiveConfigurationIsFatal ==
    app.at = "serving" =>
        /\ config.requests_per_minute > 0
        /\ config.burst_size > 0
        /\ config.window_size > 0
        /\ sec_config.max_failed_attempts > 0
        /\ sec_config.lockout_duration_minutes > 0

-----------------------------------------------------------------------------
(* Rate limiter throughput properties *)

\* the instants in ok_times[ip] that are less than `length` before the
\* newest of them
OkWithin(ip, length) ==
    LET times == ok_times[ip]
    IN  {i \in DOMAIN times : times[Len(times)] - times[i] < length}

\* C27: whatever the interleaving of the threads calling check_rate_limit on
\* one key, a call is inside the function only with the mutex held, the
\* calls that returned Ok with instants less than window_size apart are
\* never more than requests_per_minute, and the timestamps stored for the
\* key are never more than requests_per_minute.
C27_WindowLimitUnderInterleaving ==
    /\ \A th \in Threads : InBody(th) => lock = th
    /\ \A ip \in Keys :
          /\ Cardinality(OkWithin(ip, config.window_size))
                <= config.requests_per_minute
          /\ states[ip] # Absent =>
                Len(states[ip].requests) <= config.requests_per_minute

\* two calls at different instants of one window were let through, and the
\* third caller, inside the same window, has been refused and waits to
\* return while the other caller asks for the mutex
C27_Witness ==
    /\ config.requests_per_minute = 2
    /\ Len(ok_times["ip1"]) = 2
    /\ ok_times["ip1"][1] < ok_times["ip1"][2]
    /\ threads["req1"].pc = "unlock"
    /\ threads["req1"].op = "check_rate_limit"
    /\ threads["req1"].result # Ok
    /\ threads["req1"].result.err = "ExceededLimit"
    /\ threads["req1"].t - ok_times["ip1"][1] < config.window_size
    /\ threads["req2"].pc = "lock"

\* C28: when window_size is at least 10 seconds, the calls on one key that
\* returned Ok with instants less than 10 seconds apart are never more than
\* burst_size, whatever the sequence of calls; and the count a
\* BurstExceeded carries is taken over the timestamps the window pruning of
\* that call left, the ones less than 10 seconds old.
C28_BurstLimitHolds ==
    [][\A ip \in Keys :
         /\ config.window_size >= BurstInterval =>
               LET times == ok_times'[ip]
               IN  Cardinality({i \in DOMAIN times :
                                  times[Len(times)] - times[i] < BurstInterval})
                     <= config.burst_size
         /\ ( /\ BU_check_rate_limit(ip)
              /\ rl_ret'.result # Ok
              /\ rl_ret'.result.err = "BurstExceeded" ) =>
               LET stored == IF states[ip] = Absent THEN <<>>
                             ELSE states[ip].requests
                   left == {i \in DOMAIN stored : now - stored[i] < config.window_size}
               IN  /\ rl_ret'.result.burst_count =
                        Cardinality({i \in left : now - stored[i] < BurstInterval})
                   /\ rl_ret'.result.burst_count >= config.burst_size
                   /\ ok_times' = ok_times
      ]_vars

\* window 20 s, limit 4, burst 2: the calls at 0 s and at 5 s returned Ok
\* and the call at 5 s after them is refused with a burst count of 2
C28_Witness ==
    /\ config = [requests_per_minute |-> 4, burst_size |-> 2, window_size |-> 20]
    /\ now = 5
    /\ ok_times["ip1"] = <<0, 5>>
    /\ rl_ret.op = "check_rate_limit"
    /\ rl_ret.result # Ok
    /\ rl_ret.result.err = "BurstExceeded"
    /\ rl_ret.result.burst_count = 2

-----------------------------------------------------------------------------
(* Role removal properties *)

\* C30: remove_role takes the named role out of the principal's record,
\* the default ReadOnly included, and no call deletes a record; a principal
\* whose record has lost all its roles keeps the record and is refused
\* every permission by check_permission, the ReadOnly permissions that a
\* principal without a record is granted included.
C30_EmptiedRecordGrantsNothing ==
    [][\A user_id \in Users :
         /\ user_roles[user_id] # Absent => user_roles'[user_id] # Absent
         /\ \A role \in Role :
              (RS_remove_role(user_id, role) /\ user_roles[user_id] # Absent) =>
                 /\ user_roles'[user_id].roles = user_roles[user_id].roles \ {role}
                 /\ role \notin user_roles'[user_id].roles
         /\ (user_roles'[user_id] # Absent /\ user_roles'[user_id].roles = {}) =>
              /\ \A permission \in ReqPerms, context \in Contexts :
                    ~check_permission(user_roles', user_id, permission, context)
              /\ (ret'.op = "check_permission" /\ ret'.user_id = user_id) =>
                    ret'.value = FALSE
      ]_vars

\* u1 was given a role and lost it and ReadOnly: its record has no role and
\* it has just been refused documentation:read, which u2, who has no
\* record, is granted
C30_Witness ==
    /\ user_roles["u1"] # Absent
    /\ user_roles["u1"].roles = {}
    /\ ret.op = "check_permission"
    /\ ret.user_id = "u1"
    /\ ret.permission = Permission_new("documentation", "read")
    /\ ret.value = FALSE
    /\ user_roles["u2"] = Absent
    /\ check_permission(user_roles, "u2", ret.permission,
                        PermissionContext_new("u2"))

====
